---- MODULE Spec2Model ----
(***************************************************************************)
(* A model of the chunked translation engine of epub-translator            *)
(* (libs/translation.py): the structural splitter, the output validator,   *)
(* the single-request translator and the chunking/fallback orchestrator;   *)
(* of the progress store (libs/epub_utils.py) on a shared file system; and *)
(* of the resumable loop of the command line (cli.py).                     *)
(*                                                                         *)
(* A Python str is a sequence of one-character strings.  Python indices    *)
(* are 0-based and slices are half-open; the helpers below keep Python's   *)
(* conventions so that the definitions read like the source.               *)
(***************************************************************************)
EXTENDS Integers, Sequences, FiniteSets

(***************************************************************************)
(* Python string primitives                                                *)
(***************************************************************************)
\* The characters str.strip() removes (those the documents below use).
Whitespace == {" ", "\n", "\t"}

Abs(x) == IF x < 0 THEN -x ELSE x

MinOf(a, b) == IF a <= b THEN a ELSE b

MaxOf(a, b) == IF a >= b THEN a ELSE b

Rep(c, n) == [i \in 1..n |-> c]

\* s[a:b] for 0 <= a
Slice(s, a, b) == SubSeq(s, a + 1, MinOf(b, Len(s)))

\* s[a:]
SliceFrom(s, a) == SubSeq(s, a + 1, Len(s))

\* s[i:i+len(sub)] == sub, for a 0-based i with i + len(sub) <= len(s)
MatchAt(s, sub, i) == \A j \in 1..Len(sub) : s[i + j] = sub[j]

\* s.find(sub, start, end): the lowest 0-based index in [start, end - len(sub)]
\* at which sub occurs, or -1.
Find(s, sub, start, end) ==
    LET hi   == MinOf(end, Len(s)) - Len(sub)
        hits == {i \in start..hi : MatchAt(s, sub, i)}
    IN  IF hits = {} THEN -1 ELSE CHOOSE i \in hits : \A j \in hits : i <= j

\* sub in s
Contains(s, sub) == \E i \in 0..(Len(s) - Len(sub)) : MatchAt(s, sub, i)

\* s.startswith(p)
StartsWith(s, p) == Len(p) <= Len(s) /\ MatchAt(s, p, 0)

\* s.count(sub) for a sub that cannot overlap itself
Count(s, sub) == Cardinality({i \in 0..(Len(s) - Len(sub)) : MatchAt(s, sub, i)})

\* s.strip()
Strip(s) ==
    IF \A i \in 1..Len(s) : s[i] \in Whitespace THEN <<>>
    ELSE LET first == CHOOSE i \in 1..Len(s) :
                          /\ s[i] \notin Whitespace
                          /\ \A j \in 1..(i - 1) : s[j] \in Whitespace
             back  == CHOOSE k \in 0..(Len(s) - 1) :
                          /\ s[Len(s) - k] \notin Whitespace
                          /\ \A j \in 0..(k - 1) : s[Len(s) - j] \in Whitespace
         IN  SubSeq(s, first, Len(s) - back)

\* ''.join(parts)
RECURSIVE Join(_)
Join(parts) == IF parts = <<>> THEN <<>> ELSE Head(parts) \o Join(Tail(parts))

\* c.lower() for the upper-case letters the documents use (re.IGNORECASE)
LowerChar(c) ==
    CASE c = "B" -> "b" [] c = "O" -> "o" [] c = "D" -> "d" [] c = "Y" -> "y"
      [] OTHER -> c

Lower(s) == [i \in 1..Len(s) |-> LowerChar(s[i])] \o <<>>

(***************************************************************************)
(* Structural splitter                                                     *)
(***************************************************************************)
BodyOpen == <<"<", "b", "o", "d", "y">>

BodyClose == <<"<", "/", "b", "o", "d", "y", ">">>

\* re.search(r'^(.*?<body[^>]*>)(.*?)(<\/body>.*?)$', html, DOTALL | IGNORECASE):
\* group 1 ends at the first '>' after the first "<body", group 2 at the first
\* "</body>" after it, and group 3 runs to the first place '$' matches, which
\* without re.MULTILINE is the end of the string or just before a final "\n".
\* No match: ("", html, "").  (The parameter html is called text here: html
\* names the orchestrator's variable below.)
extract_html_structure(text) ==
    LET low   == Lower(text)
        n     == Len(text)
        open  == Find(low, BodyOpen, 0, n)
        gt    == IF open = -1 THEN -1 ELSE Find(low, <<">">>, open + 5, n)
        close == IF gt = -1 THEN -1 ELSE Find(low, BodyClose, gt + 1, n)
        stop  == IF n > 0 /\ text[n] = "\n" /\ close + 7 <= n - 1 THEN n - 1 ELSE n
    IN  IF close = -1
        THEN [prefix |-> <<>>, body |-> text, suffix |-> <<>>]
        ELSE [prefix |-> Slice(text, 0, gt + 1),
              body   |-> Slice(text, gt + 1, close),
              suffix |-> Slice(text, close, stop)]

wrap_html_content(body_content, prefix, suffix) == prefix \o body_content \o suffix

major_tags ==
    << <<"<", "/", "p", ">">>,
       <<"<", "/", "d", "i", "v", ">">>,
       <<"<", "/", "s", "e", "c", "t", "i", "o", "n", ">">>,
       <<"<", "/", "a", "r", "t", "i", "c", "l", "e", ">">>,
       <<"<", "/", "h", "1", ">">>,
       <<"<", "/", "h", "2", ">">>,
       <<"<", "/", "h", "3", ">">>,
       <<"<", "/", "h", "4", ">">>,
       <<"<", "/", "h", "5", ">">>,
       <<"<", "/", "h", "6", ">">> >>

\* How far around the target offset a closing tag is searched for.
SearchWindow == 500

\* The body of "for tag in major_tags", from tag number k on: best_split starts
\* at target_size and is replaced only by a tag end strictly closer to it.
RECURSIVE BestSplit(_, _, _, _)
BestSplit(remaining, target_size, k, best_split) ==
    IF k > Len(major_tags) THEN best_split
    ELSE LET tag          == major_tags[k]
             search_start == MaxOf(0, target_size - SearchWindow)
             search_end   == MinOf(Len(remaining), target_size + SearchWindow)
             tag_pos      == Find(remaining, tag, search_start, search_end)
             tag_end      == tag_pos + Len(tag)
         IN  IF tag_pos # -1
                /\ Abs(tag_end - target_size) < Abs(best_split - target_size)
             THEN BestSplit(remaining, target_size, k + 1, tag_end)
             ELSE BestSplit(remaining, target_size, k + 1, best_split)

\* A variant of SplitLoop without "if chunk:": a chunk is kept even when
\* nothing is left of it once trimmed
RECURSIVE SplitLoopKeepsEmpty(_, _, _)
SplitLoopKeepsEmpty(remaining, target_size, pieces) ==
    IF Len(remaining) > target_size
    THEN LET best_split == BestSplit(remaining, target_size, 1, target_size)
             chunk      == Strip(Slice(remaining, 0, best_split))
         IN  SplitLoopKeepsEmpty(Strip(SliceFrom(remaining, best_split)), target_size,
                                 Append(pieces, chunk))
    ELSE IF Strip(remaining) # <<>> THEN Append(pieces, remaining) ELSE pieces

\* "while len(remaining) > target_size" and the final append (target_size >= 1)
RECURSIVE SplitLoop(_, _, _)
SplitLoop(remaining, target_size, pieces) ==
    IF Len(remaining) > target_size
    THEN LET best_split == BestSplit(remaining, target_size, 1, target_size)
             chunk      == Strip(Slice(remaining, 0, best_split))
         IN  SplitLoop(Strip(SliceFrom(remaining, best_split)), target_size,
                       IF chunk # <<>> THEN Append(pieces, chunk) ELSE pieces)
    ELSE IF Strip(remaining) # <<>> THEN Append(pieces, remaining) ELSE pieces

\* smart_html_split without "if len(html) <= target_size: return [html]"
smart_html_split_no_early_return(text, target_size) ==
    SplitLoop(text, target_size, <<>>)

smart_html_split(text, target_size) ==
    IF Len(text) <= target_size THEN <<text>>
    ELSE SplitLoop(text, target_size, <<>>)

\* "for body_chunk in body_chunks: structured_chunks.append(wrap_html_content(...))"
RECURSIVE WrapAll(_, _, _)
WrapAll(body_chunks, prefix, suffix) ==
    IF body_chunks = <<>> THEN <<>>
    ELSE <<wrap_html_content(Head(body_chunks), prefix, suffix)>>
         \o WrapAll(Tail(body_chunks), prefix, suffix)

smart_html_split_with_structure(text, target_size) ==
    LET st == extract_html_structure(text)
    IN  WrapAll(smart_html_split(st.body, target_size), st.prefix, st.suffix)

(***************************************************************************)
(* Output validator                                                        *)
(***************************************************************************)
\* The smallest element of a non-empty set of integers
SetMin(S) == CHOOSE x \in S : \A y \in S : x <= y

\* len(BeautifulSoup(s, 'html.parser').get_text(strip=True)), from the 1-based
\* position pos on: a tag runs from a '<' to the next '>', the text between
\* two tags is one text node, each node is stripped and the nodes are joined.
\* The text after a '<' that is never closed is not counted.
RECURSIVE TextLenFrom(_, _, _, _)
TextLenFrom(s, opens, closes, pos) ==
    LET os == {o \in opens : o >= pos}
        o  == SetMin(os)
        cs == {c \in closes : c > o}
        c  == SetMin(cs)
    IN  IF os = {} THEN Len(Strip(SubSeq(s, pos, Len(s))))
        ELSE IF cs = {} THEN Len(Strip(SubSeq(s, pos, o - 1)))
        ELSE Len(Strip(SubSeq(s, pos, o - 1))) + TextLenFrom(s, opens, closes, c + 1)

get_text_len(s) ==
    TextLenFrom(s, {i \in 1..Len(s) : s[i] = "<"}, {i \in 1..Len(s) : s[i] = ">"}, 1)

\* "if not trans or len(trans.strip()) < 10"
MinTransLen == 10

\* "if len(soup.get_text(strip=True)) < 20"
MinTextLen == 20

\* html.parser accepts every input: BeautifulSoup(trans, 'html.parser') does not
\* raise on the strings of this model.
ParseRaises(trans) == FALSE

\* validate_translation without the floor on the text of the parsed candidate
validate_translation_no_text_floor(orig, trans) ==
    LET orig_stripped  == Strip(orig)
        trans_stripped == Strip(trans)
        first_tag_end  == Find(orig_stripped, <<">">>, 0, Len(orig_stripped))
        first_tag      == Slice(orig_stripped, 0, first_tag_end + 1)
    IN  IF trans = <<>> \/ Len(trans_stripped) < MinTransLen
        THEN [valid |-> FALSE, err |-> "Translation too short"]
        ELSE IF /\ StartsWith(orig_stripped, <<"<">>)
                /\ first_tag_end > 0
                /\ ~StartsWith(trans_stripped, first_tag)
        THEN [valid |-> FALSE, err |-> "Output should start with the first tag"]
        ELSE IF Contains(orig, <<"<", "p">>) /\ ~Contains(trans, <<"<", "p">>)
        THEN [valid |-> FALSE, err |-> "Paragraph tags missing"]
        ELSE IF ParseRaises(trans)
        THEN [valid |-> FALSE, err |-> "Invalid HTML"]
        ELSE [valid |-> TRUE, err |-> ""]

\* validate_translation with the paragraph check made before the start tag check
validate_translation_paragraph_first(orig, trans) ==
    LET orig_stripped  == Strip(orig)
        trans_stripped == Strip(trans)
        first_tag_end  == Find(orig_stripped, <<">">>, 0, Len(orig_stripped))
        first_tag      == Slice(orig_stripped, 0, first_tag_end + 1)
    IN  IF trans = <<>> \/ Len(trans_stripped) < MinTransLen
        THEN [valid |-> FALSE, err |-> "Translation too short"]
        ELSE IF Contains(orig, <<"<", "p">>) /\ ~Contains(trans, <<"<", "p">>)
        THEN [valid |-> FALSE, err |-> "Paragraph tags missing"]
        ELSE IF /\ StartsWith(orig_stripped, <<"<">>)
                /\ first_tag_end > 0
                /\ ~StartsWith(trans_stripped, first_tag)
        THEN [valid |-> FALSE, err |-> "Output should start with the first tag"]
        ELSE IF ParseRaises(trans)
        THEN [valid |-> FALSE, err |-> "Invalid HTML"]
        ELSE IF get_text_len(trans) < MinTextLen
        THEN [valid |-> FALSE, err |-> "Too little text after parsing"]
        ELSE [valid |-> TRUE, err |-> ""]

validate_translation(orig, trans) ==
    LET orig_stripped  == Strip(orig)
        trans_stripped == Strip(trans)
        first_tag_end  == Find(orig_stripped, <<">">>, 0, Len(orig_stripped))
        first_tag      == Slice(orig_stripped, 0, first_tag_end + 1)
    IN  IF trans = <<>> \/ Len(trans_stripped) < MinTransLen
        THEN [valid |-> FALSE, err |-> "Translation too short"]
        ELSE IF /\ StartsWith(orig_stripped, <<"<">>)
                /\ first_tag_end > 0
                /\ ~StartsWith(trans_stripped, first_tag)
        THEN [valid |-> FALSE, err |-> "Output should start with the first tag"]
        ELSE IF Contains(orig, <<"<", "p">>) /\ ~Contains(trans, <<"<", "p">>)
        THEN [valid |-> FALSE, err |-> "Paragraph tags missing"]
        ELSE IF ParseRaises(trans)
        THEN [valid |-> FALSE, err |-> "Invalid HTML"]
        ELSE IF get_text_len(trans) < MinTextLen
        THEN [valid |-> FALSE, err |-> "Too little text after parsing"]
        ELSE [valid |-> TRUE, err |-> ""]

(***************************************************************************)
(* Inputs: documents, model lists, endpoint behaviours                     *)
(***************************************************************************)
Para(n) == <<"<", "p", ">">> \o Rep("x", n) \o <<"<", "/", "p", ">", "\n">>

Paras(k, n) == Join([j \in 1..k |-> Para(n)])

HtmlOpen(h) ==
    <<"<", "h", "t", "m", "l", ">", "<", "h", "e", "a", "d", ">",
      "<", "t", "i", "t", "l", "e", ">">>
    \o Rep("t", h)
    \o <<"<", "/", "t", "i", "t", "l", "e", ">", "<", "/", "h", "e", "a", "d", ">",
         "<", "b", "o", "d", "y", ">", "\n">>

HtmlClose == <<"<", "/", "b", "o", "d", "y", ">", "<", "/", "h", "t", "m", "l", ">">>

\* The documents translate_with_chunking is called on:
\*  1  a short paragraph (never chunked: half its length is under the floor)
\*  2  bare paragraphs, two pieces under 4000 characters
\*  3  a wrapped document, two pieces under 4000 characters
\*  4  bare paragraphs, two pieces of 4000 characters or more, then four smaller
\*  5  a long head and a short body: the body fits the first chunk size
\*  6  white space only: the split yields no piece
\*  7  a long head and a long body: every piece has 4000 characters or more
\*  8  two paragraphs after two line feeds: a first piece under 4000
\*     characters, then a piece of 4000 characters
\*  9  a paragraph before white space, more than twice the largest chunk
\*     size in all: the first chunk size is the cap, and the passes at 16000,
\*     8000 and 4000 have one piece of 4000 characters
\* 10  a wrapped document with an upper-case body tag and a final newline
AllDocs ==
    << <<"<", "p", ">">> \o Rep("x", 30) \o <<"<", "/", "p", ">">>,
       Paras(4, 1000),
       HtmlOpen(10) \o Paras(4, 1100) \o HtmlClose,
       Paras(8, 1005),
       HtmlOpen(2200) \o Paras(2, 900) \o HtmlClose,
       Rep(" ", 4000),
       HtmlOpen(2000) \o Paras(6, 1000) \o HtmlClose,
       <<"\n", "\n">> \o Para(3992)
           \o <<"<", "p", ">">> \o Rep("x", 3993) \o <<"<", "/", "p", ">">>,
       Para(3993) \o Rep(" ", 28100),
       <<"<", "B", "O", "D", "Y", ">">> \o Paras(4, 1050)
           \o <<"<", "/", "B", "O", "D", "Y", ">", "\n">> >>

\* How many of the documents above are used
NumDocs == 9

DocIds == 1..NumDocs

AllModels == <<"m1", "m2", "m3", "m4">>

\* The longest candidate list
MaxModels == 2

\* model_list: the candidate lists, the empty list included
ModelLists == {SubSeq(AllModels, 1, n) : n \in 0..MaxModels}

\* The letter model m writes for a letter of the source text
ModelLetter(m) ==
    CASE m = "m1" -> "a" [] m = "m2" -> "b" [] m = "m3" -> "c" [] OTHER -> "d"

\* A translation that keeps every tag, the wrapper included, and the layout
Faithful(m, block) ==
    [j \in 1..Len(block) |-> IF block[j] = "x" THEN ModelLetter(m) ELSE block[j]]

\* What the endpoint does with one request
Behaviours ==
    {"timeout", "connection_error", "http_error", "invalid_json", "missing_message",
     "missing_content", "null_content", "blank", "short", "faithful"}

\* message.content of the response to a request for block, as the endpoint sends it
ResponseContent(behaviour, m, block) ==
    CASE behaviour = "faithful" -> <<"\n">> \o Faithful(m, block) \o <<"\n">>
      [] behaviour = "short"    -> <<"o", "k">>
      [] behaviour = "blank"    -> <<" ", "\n">>
      [] OTHER                  -> <<>>

\* The dict resp.json() returns, as a function from its keys
ResponseJson(behaviour, content) ==
    CASE behaviour \in {"invalid_json", "http_error", "missing_message"} ->
             [error |-> "Server error"]
      [] behaviour = "missing_content" -> [message |-> [role |-> "assistant"]]
      [] behaviour = "null_content"    ->
             [message |-> [content |-> [type |-> "NoneType", value |-> <<>>]]]
      [] OTHER ->
             [message |-> [content |-> [type |-> "str", value |-> content]]]

\* What requests.post does: it raises (error), or returns a response with a
\* status code and a body that decodes as JSON or does not.
Response(behaviour, content) ==
    [error       |-> CASE behaviour = "timeout" -> "Timeout"
                       [] behaviour = "connection_error" -> "ConnectionError"
                       [] OTHER -> "",
     status_code |-> IF behaviour = "http_error" THEN 500 ELSE 200,
     decodes     |-> behaviour # "invalid_json",
     json        |-> ResponseJson(behaviour, content)]

(***************************************************************************)
(* The splits and the faithful answers of the documents above, tabulated:  *)
(* the tables hold the values of smart_html_split_with_structure and of    *)
(* ResponseContent for the chunk sizes the halving reaches.                *)
(***************************************************************************)
\* "chunk_size = min(initial_size // 2, 16000)"
MaxChunkSize == 16000

\* "min_chunk_size = 2000"
min_chunk_size == 2000

\* "len(chunks[0]) < 4000": below it a failing pass ends the model
GiveUpSize == 4000

\* The sequence f with its elements evaluated: a table holds values
Tabulated(f) == f \o <<>>

\* The chunk sizes "chunk_size = chunk_size // 2" reaches from size
RECURSIVE HalvedSizes(_)
HalvedSizes(size) ==
    IF size < min_chunk_size THEN <<>> ELSE <<size>> \o HalvedSizes(size \div 2)

\* The splits of text at the chunk sizes the halving reaches
SplitsAt(text, sizes) ==
    Tabulated([k \in 1..Len(sizes) |->
        [size |-> sizes[k], pieces |-> smart_html_split_with_structure(text, sizes[k])]])

SplitsOf(d) ==
    SplitsAt(AllDocs[d], HalvedSizes(MinOf(Len(AllDocs[d]) \div 2, MaxChunkSize)))

SplitTable == Tabulated([d \in DocIds |-> SplitsOf(d)])

\* The pieces of the pass at size
PassAt(passes, size) ==
    passes[CHOOSE k \in 1..Len(passes) : passes[k].size = size].pieces

\* smart_html_split_with_structure(AllDocs[d], size)
Split(d, size) == PassAt(SplitTable[d], size)

\* A block sent to the endpoint: the whole document d (size 0) or piece number
\* piece of its split at size
BlockText(ref) ==
    IF ref.size = 0 THEN AllDocs[ref.d] ELSE Split(ref.d, ref.size)[ref.piece]

\* The blocks of the passes
PassRefs(d, passes) ==
    UNION {{[d |-> d, size |-> passes[p].size, piece |-> j] :
               j \in 1..Len(passes[p].pieces)} : p \in 1..Len(passes)}

\* The blocks of document d: the document and the pieces of its splits
BlockRefs(d) == {[d |-> d, size |-> 0, piece |-> 1]} \cup PassRefs(d, SplitTable[d])

\* The faithful answers of model m to the pieces
AnswersTo(m, pieces) ==
    Tabulated([j \in 1..Len(pieces) |-> ResponseContent("faithful", m, pieces[j])])

\* The faithful answers of model m to the document text and to its passes
AnswersAt(m, text, passes) ==
    [whole  |-> ResponseContent("faithful", m, text),
     passes |-> Tabulated([p \in 1..Len(passes) |->
                    [size   |-> passes[p].size,
                     pieces |-> AnswersTo(m, passes[p].pieces)]])]

AnswersOf(d) ==
    Tabulated([k \in 1..MaxModels |-> AnswersAt(AllModels[k], AllDocs[d], SplitTable[d])])

AnswerTable == Tabulated([d \in DocIds |-> AnswersOf(d)])

ModelNo(m) == CHOOSE k \in 1..Len(AllModels) : AllModels[k] = m

\* The faithful answer to the block ref among the answers of a model
AnswerAt(answers, ref) ==
    IF ref.size = 0 THEN answers.whole ELSE PassAt(answers.passes, ref.size)[ref.piece]

\* ResponseContent(behaviour, m, BlockText(ref))
Content(behaviour, m, ref) ==
    IF behaviour = "faithful"
    THEN AnswerAt(AnswerTable[ref.d][ModelNo(m)], ref)
    ELSE ResponseContent(behaviour, m, <<>>)

(***************************************************************************)
(* Single-request translator: _translate_once                              *)
(***************************************************************************)
Returned(c) == [kind |-> "return", exc |-> "", msg |-> <<>>, content |-> c]

Raised(e, m) == [kind |-> "raise", exc |-> e, msg |-> m, content |-> <<>>]

\* The classes of an exception: itself and its bases up to Exception
ExcBases(e) ==
    CASE e \in {"Timeout", "ConnectionError", "HTTPError"} ->
             {e, "RequestException", "OSError", "Exception"}
      [] e = "JSONDecodeError"   -> {e, "ValueError", "Exception"}
      [] e = "FileNotFoundError" -> {e, "OSError", "Exception"}
      [] OTHER                   -> {e, "Exception"}

\* "try: <body> except <classes> as e: raise TranslationError(prefix + str(e))"
Reraise(outcome, classes, prefix) ==
    IF outcome.kind = "raise" /\ ExcBases(outcome.exc) \cap classes # {}
    THEN Raised("TranslationError", <<prefix>> \o outcome.msg)
    ELSE outcome

\* "try: <body> except Exception: logger.warning(...)": the statement completes
Swallow(outcome) ==
    IF outcome.kind = "raise" /\ "Exception" \in ExcBases(outcome.exc)
    THEN Returned(<<>>)
    ELSE outcome

\* Lines 370-372: writing debug-lastcall.json; fs.write says whether the file
\* can be written
DebugWrite(fs) ==
    IF fs.write THEN Returned(<<>>) ELSE Raised("OSError", <<"Permission denied">>)

\* Lines 384-399: reading the file back and rewriting it with the response
DebugUpdate(fs) ==
    IF fs.update THEN Returned(<<>>)
    ELSE Raised("FileNotFoundError", <<"No such file or directory">>)

\* A variant of GuardedDebugWrite without the handler around the write
UnguardedDebugWrite(dbg, fs) ==
    IF dbg THEN DebugWrite(fs) ELSE Returned(<<>>)

\* Lines 357-374: the guarded debug write before the request
GuardedDebugWrite(dbg, fs) ==
    IF dbg THEN Swallow(DebugWrite(fs)) ELSE Returned(<<>>)

\* Lines 382-401: the guarded debug update after the request
GuardedDebugUpdate(dbg, fs) ==
    IF dbg THEN Swallow(DebugUpdate(fs)) ELSE Returned(<<>>)

\* Lines 406-428: the response envelope and the validation.  The verdict of
\* validate_translation ("checked") is only logged (lines 422-425).
ParseResponse(block, resp) ==
    LET resp_json == resp.json
        message   == resp_json.message
        content   == Strip(message.content.value)
        checked   == validate_translation(block, content)
    IN  IF ~resp.decodes
        THEN Raised("JSONDecodeError", <<"Expecting value">>)
        ELSE IF "message" \notin DOMAIN resp_json
        THEN Raised("ValueError", <<"missing 'message' field">>)
        ELSE IF "content" \notin DOMAIN message
        THEN Raised("ValueError", <<"missing 'content' field">>)
        ELSE IF message.content.type # "str"
        THEN Raised("AttributeError", <<"'NoneType' object has no attribute 'strip'">>)
        ELSE IF content = <<>>
        THEN Raised("ValueError", <<"Empty response from API">>)
        ELSE Returned(content)

\* Lines 405-432: the inner try
InnerTry(block, resp) ==
    Reraise(ParseResponse(block, resp), {"KeyError", "ValueError", "TypeError"},
            "Invalid API response: ")

\* Lines 377-432: requests.post, the debug update, raise_for_status, the inner try
SendRequest(block, resp, dbg, fs) ==
    LET updated == GuardedDebugUpdate(dbg, fs)
    IN  IF resp.error # "" THEN Raised(resp.error, <<"request failed">>)
        ELSE IF updated.kind = "raise" THEN updated
        ELSE IF resp.status_code >= 400
        THEN Raised("HTTPError", <<"Server Error">>)
        ELSE InnerTry(block, resp)

\* A variant of OuterCatches that catches the transport errors only
OuterCatchesTransport == {"RequestException"}

\* The classes the outer handler catches (line 434)
OuterCatches == {"Exception"}

\* _translate_once(api_base, model, prompt, block, debug): resp is what the
\* endpoint does with the request, fs what the file system does with the
\* debug file
translate_once(m, block, resp, dbg, fs) ==
    LET written == GuardedDebugWrite(dbg, fs)
    IN  IF written.kind = "raise" THEN written
        ELSE Reraise(SendRequest(block, resp, dbg, fs), OuterCatches,
                     "Translation failed: ")


\* A variant of Posted that sends the request again when the first one failed
PostedWithRetry(m, ref, resp, dbg, fs) ==
    LET written == GuardedDebugWrite(dbg, fs)
        post    == [model |-> m, ref |-> ref]
    IN  IF written.kind = "raise" THEN <<>>
        ELSE IF SendRequest(BlockText(ref), resp, dbg, fs).kind = "raise"
        THEN <<post, post>>
        ELSE <<post>>

\* The calls of requests.post made by one call of _translate_once, in order:
\* line 379 is reached once the guarded debug write is over, and nothing after
\* it leads back to it (both handlers, lines 430-436, raise)
Posted(m, ref, resp, dbg, fs) ==
    LET written == GuardedDebugWrite(dbg, fs)
        post    == [model |-> m, ref |-> ref]
    IN  IF written.kind = "raise" THEN <<>> ELSE <<post>>

\* The outcomes of the two debug-file operations
FsOutcomes == [write : BOOLEAN, update : BOOLEAN]

(***************************************************************************)
(* Chunking/fallback orchestrator: translate_with_chunking                 *)
(***************************************************************************)
VARIABLES
    html,               \* the document passed in, by its number in AllDocs
    model_list,         \* the candidate models, in order
    debug,              \* the debug flag passed in
    progress,           \* the caller's progress dict, as a function from its keys
    progress0,          \* (history) the progress dict as it was at the call
    pc,                 \* where the call stands
    model_idx,          \* 1-based position in model_list (Python's model_idx + 1)
    chunk_size,
    chunks,             \* the pieces of the split in hand, each as a block
    chunk_no,           \* 1-based number of the chunk in hand (Python's i + 1)
    translated_chunks,
    ret,                \* what the call returned or raised
    requests,           \* (history) one entry per _translate_once call, in order
    call,               \* (history) a single _translate_once call and its outcome
    applied,            \* the splitter function applied on its own, or "none"
    arg_text,           \* its text argument
    arg_size,           \* its target_size argument
    fn_result,          \* what it returned
    split_remaining,    \* smart_html_split run turn by turn: its variable remaining
    split_chunks,       \* and its variable chunks
    disk,               \* the files of the progress store, by path
    saved,              \* (history) per path, the record of the last completed save
    proc,               \* the runs that use the store: where each one stands
    workspace,          \* cli.py: the path of the progress file (args.workspace)
    book,               \* the segments of the document (cli.py's chunks), in order
    args_debug,         \* args.debug
    cli_pc,             \* where the command stands
    run_no,             \* the number of the run of the command
    item_no,            \* 1-based position in book of the segment of the for loop
    cli_prog,           \* cli.py's prog
    trans_map,
    debug_data,
    sent,               \* (history) the calls of translate_with_fallback, in order
    held,               \* (history) per run, the translations the file held at its start
    completed,          \* (history) the translations of this run's completed segments
    arg_orig,           \* validate_translation applied on its own: its orig argument
    arg_trans,          \* its trans argument
    verdict,            \* the tuple it returned, <<>> before the call
    note_args,          \* the calls of convert_translator_notes_to_footnotes to make
    note_results        \* what the calls made so far returned, in order

\* The variables of translate_with_chunking and of a single _translate_once call
engine == <<html, model_list, debug, progress, progress0, pc, model_idx, chunk_size,
            chunks, chunk_no, translated_chunks, ret, requests, call>>

\* The variables of a splitter function applied on its own
splitter == <<applied, arg_text, arg_size, fn_result, split_remaining, split_chunks>>

\* The variables of the progress store (libs/epub_utils.py)
store == <<disk, saved, proc>>

\* The variables of the command line loop (cli.py)
cli == <<workspace, book, args_debug, cli_pc, run_no, item_no, cli_prog, trans_map,
         debug_data, sent, held, completed>>

\* The variables of validate_translation applied on its own
validator == <<arg_orig, arg_trans, verdict>>

\* The variables of convert_translator_notes_to_footnotes applied on its own
footnoter == <<note_args, note_results>>

\* The variables of the two functions applied on their own
pure == <<validator, footnoter>>

\* The variables the engine leaves alone
outside == <<splitter, store, cli, pure>>

vars == <<engine, outside>>

\* No splitter function is being applied on its own
SplitterIdle ==
    /\ applied = "none"
    /\ arg_text = <<>>
    /\ arg_size = 0
    /\ fn_result = <<>>
    /\ split_remaining = <<>>
    /\ split_chunks = <<>>

\* No run uses the progress store
StoreIdle ==
    /\ disk = <<>>
    /\ saved = <<>>
    /\ proc = <<>>

\* The command is not running
CliIdle ==
    /\ workspace = [stem |-> "", suffix |-> ""]
    /\ book = <<>>
    /\ args_debug = FALSE
    /\ cli_pc = "idle"
    /\ run_no = 0
    /\ item_no = 0
    /\ cli_prog = <<>>
    /\ trans_map = <<>>
    /\ debug_data = <<>>
    /\ sent = <<>>
    /\ held = <<>>
    /\ completed = <<>>

\* validate_translation is not being applied on its own
ValidatorIdle ==
    /\ arg_orig = <<>>
    /\ arg_trans = <<>>
    /\ verdict = <<>>

\* convert_translator_notes_to_footnotes is not being applied on its own
FootnoterIdle ==
    /\ note_args = <<>>
    /\ note_results = <<>>

PureIdle == ValidatorIdle /\ FootnoterIdle

OutsideIdle == SplitterIdle /\ StoreIdle /\ CliIdle /\ PureIdle

\* translate_with_chunking is not running
EngineIdle ==
    /\ html = 1
    /\ model_list = <<>>
    /\ debug = FALSE
    /\ progress = [k \in {} |-> 0]
    /\ progress0 = progress
    /\ pc = "idle"
    /\ model_idx = 1
    /\ chunk_size = 0
    /\ chunks = <<>>
    /\ chunk_no = 1
    /\ translated_chunks = <<>>
    /\ ret = [kind |-> "none", result |-> <<>>, model |-> "", exc |-> "", msg |-> <<>>]
    /\ requests = <<>>
    /\ call = [m |-> "", ref |-> [d |-> 0, size |-> 0, piece |-> 0], behaviour |-> "",
               dbg |-> FALSE, fs |-> [write |-> TRUE, update |-> TRUE],
               outcome |-> [kind |-> "return", exc |-> "", msg |-> <<>>, content |-> <<>>]]

\* The progress dicts a caller passes: {} (cli.py:103) or the loaded record
ProgressDicts ==
    { [k \in {} |-> 0],
      [k \in {"translated", "chunk_parts"} |-> IF k = "chunk_parts" THEN 7 ELSE 1] }

\* What the endpoint does with a request of an orchestrated call
Replies == Behaviours \ {"short"}

NoResult == [kind |-> "none", result |-> <<>>, model |-> "", exc |-> "", msg |-> <<>>]

Return(result, model) ==
    [kind |-> "return", result |-> result, model |-> model, exc |-> "", msg |-> <<>>]

Raise(exc, msg) ==
    [kind |-> "raise", result |-> <<>>, model |-> "", exc |-> exc, msg |-> msg]

NoCall ==
    [m |-> "", ref |-> [d |-> 0, size |-> 0, piece |-> 0], behaviour |-> "",
     dbg |-> FALSE, fs |-> [write |-> TRUE, update |-> TRUE],
     outcome |-> Returned(<<>>), posted |-> <<>>]

Init ==
    /\ html \in DocIds
    /\ model_list \in ModelLists
    /\ debug \in BOOLEAN
    /\ progress \in ProgressDicts
    /\ progress0 = progress
    /\ pc = "for"
    /\ model_idx = 1
    /\ chunk_size = 0
    /\ chunks = <<>>
    /\ chunk_no = 1
    /\ translated_chunks = <<>>
    /\ ret = NoResult
    /\ requests = <<>>
    /\ call = NoCall
    /\ OutsideIdle

\* A variant of SetChunkParts that records the chunk size instead of the count
SetChunkPartsSize(prog, n) ==
    [k \in DOMAIN prog \cup {"chunk_parts"} |->
        IF k = "chunk_parts" THEN chunk_size ELSE prog[k]]

\* "progress['chunk_parts'] = len(chunks)"
SetChunkParts(prog, n) ==
    [k \in DOMAIN prog \cup {"chunk_parts"} |-> IF k = "chunk_parts" THEN n ELSE prog[k]]

\* ', '.join(model_list)
RECURSIVE JoinNames(_)
JoinNames(names) ==
    IF names = <<>> THEN <<>>
    ELSE IF Len(names) = 1 THEN <<names[1]>>
    ELSE <<names[1], ", ">> \o JoinNames(Tail(names))

\* What the endpoint and the file system do with a request for the block ref
\* sent to model m
Endpoint(m, ref, behaviour, dbg, fs) ==
    translate_once(m, BlockText(ref), Response(behaviour, Content(behaviour, m, ref)),
                   dbg, fs)

\* The record of one call in the history: the position of the model, the block
\* (size 0 stands for the whole document), whether the call returned, and for
\* a call that returned what the endpoint had answered
Request(k, size, piece, behaviour, outcome) ==
    [m |-> k, size |-> size, piece |-> piece, ok |-> outcome.kind = "return",
     answer |-> IF outcome.kind = "return" THEN behaviour ELSE ""]

\* Line 231 and line 317: the next model of the list, if any
ForModel ==
    /\ pc = "for"
    /\ IF model_idx <= Len(model_list)
       THEN /\ pc' = "full"
            /\ ret' = ret
       ELSE /\ pc' = "raised"
            /\ ret' = Raise("TranslationError", <<"All models failed">>)
    /\ UNCHANGED <<outside, html, model_list, debug, progress, progress0, model_idx, chunk_size,
                   chunks, chunk_no, translated_chunks, requests, call>>

\* A variant of AfterFull that goes on to chunking whatever the call did
AfterFullGoesOn(outcome) ==
    /\ chunk_size' = MinOf(Len(AllDocs[html]) \div 2, MaxChunkSize)
    /\ pc' = "while"
    /\ ret' = ret

\* What follows the whole-document call (lines 237-248)
AfterFull(outcome) ==
    IF outcome.kind = "return"
    THEN /\ ret' = Return(outcome.content, model_list[model_idx])
         /\ pc' = "returned"
         /\ chunk_size' = chunk_size
    ELSE IF outcome.exc = "TranslationError"
    THEN /\ chunk_size' = MinOf(Len(AllDocs[html]) \div 2, MaxChunkSize)
         /\ pc' = "while"
         /\ ret' = ret
    ELSE /\ ret' = Raise(outcome.exc, outcome.msg)
         /\ pc' = "raised"
         /\ chunk_size' = chunk_size

\* Lines 234-248: the whole-document attempt with the current model
FullAttempt ==
    /\ pc = "full"
    /\ \E behaviour \in Replies, fs \in FsOutcomes :
         \E outcome \in {Endpoint(model_list[model_idx],
                                  [d |-> html, size |-> 0, piece |-> 1],
                                  behaviour, debug, fs)} :
             /\ AfterFull(outcome)
             /\ requests' = Append(requests, Request(model_idx, 0, 1, behaviour, outcome))
    /\ UNCHANGED <<outside, html, model_list, debug, progress, progress0, model_idx,
                   chunks, chunk_no, translated_chunks, call>>

\* A variant of PassSucceeded that gives a later model of the list its turn
PassSucceededDefers(done, parts) ==
    IF model_idx < Len(model_list)
    THEN /\ pc' = "failed"
         /\ ret' = ret
         /\ progress' = progress
    ELSE /\ ret' = Return(Join(done), model_list[model_idx])
         /\ progress' = [k \in DOMAIN progress \cup {"chunk_parts"} |->
                             IF k = "chunk_parts" THEN parts ELSE progress[k]]
         /\ pc' = "returned"

\* Lines 289-296: every chunk of the pass is translated
PassSucceeded(done, parts) ==
    /\ ret' = Return(Join(done), model_list[model_idx])
    /\ progress' = SetChunkParts(progress, parts)
    /\ pc' = "returned"

\* A variant of FreshChunks that keeps the strings of the pass before
FreshChunksKept(old) == old

\* "translated_chunks = []" at the start of a pass (line 262)
FreshChunks(old) == <<>>

\* The blocks of smart_html_split_with_structure(html, size)
ChunkRefs(d, size) ==
    [j \in 1..Len(Split(d, size)) |-> [d |-> d, size |-> size, piece |-> j]]

\* Lines 250-263: the loop test, the guard against a no-op split, the split
WhileChunkSize ==
    /\ pc = "while"
    /\ IF chunk_size < min_chunk_size
       THEN /\ pc' = "failed"
            /\ UNCHANGED <<chunk_size, chunks, chunk_no, translated_chunks, ret,
                           progress>>
       ELSE IF chunk_size >= Len(AllDocs[html])
       THEN /\ chunk_size' = chunk_size \div 2
            /\ UNCHANGED <<pc, chunks, chunk_no, translated_chunks, ret, progress>>
       ELSE /\ chunks' = ChunkRefs(html, chunk_size)
            /\ translated_chunks' = FreshChunks(translated_chunks)
            /\ chunk_no' = 1
            /\ chunk_size' = chunk_size
            /\ IF chunks' = <<>>
               THEN PassSucceeded(translated_chunks', Len(chunks'))
               ELSE pc' = "chunk" /\ UNCHANGED <<ret, progress>>
    /\ UNCHANGED <<outside, html, model_list, debug, progress0, model_idx, requests, call>>

\* A variant of PassFailed that divides the chunk size by four
PassFailedQuarters ==
    IF Len(chunks) > 0 /\ Len(BlockText(chunks[1])) < GiveUpSize
    THEN pc' = "failed" /\ chunk_size' = chunk_size
    ELSE pc' = "while" /\ chunk_size' = chunk_size \div 4

\* A variant of PassFailed that tries the same chunk size again
PassFailedSameSize ==
    IF Len(chunks) > 0 /\ Len(BlockText(chunks[1])) < GiveUpSize
    THEN pc' = "failed" /\ chunk_size' = chunk_size
    ELSE pc' = "while" /\ chunk_size' = chunk_size

\* Lines 297-306: a chunk of the pass failed
PassFailed ==
    IF Len(chunks) > 0 /\ Len(BlockText(chunks[1])) < GiveUpSize
    THEN pc' = "failed" /\ chunk_size' = chunk_size
    ELSE pc' = "while" /\ chunk_size' = chunk_size \div 2

\* A variant of AfterChunk that puts the new string before the ones it has
AfterChunkPrepends(outcome) ==
    IF outcome.kind = "return"
    THEN /\ translated_chunks' = <<outcome.content>> \o translated_chunks
         /\ chunk_size' = chunk_size
         /\ IF chunk_no = Len(chunks)
            THEN PassSucceeded(translated_chunks', Len(chunks)) /\ chunk_no' = chunk_no
            ELSE chunk_no' = chunk_no + 1 /\ UNCHANGED <<pc, ret, progress>>
    ELSE IF outcome.exc = "TranslationError"
    THEN /\ PassFailed
         /\ UNCHANGED <<translated_chunks, chunk_no, ret, progress>>
    ELSE /\ pc' = "while"
         /\ chunk_size' = chunk_size \div 2
         /\ UNCHANGED <<translated_chunks, chunk_no, ret, progress>>

\* A variant of AfterChunk that goes on to the next piece when a piece fails
AfterChunkGoesOn(outcome) ==
    IF outcome.kind = "return"
    THEN /\ translated_chunks' = Append(translated_chunks, outcome.content)
         /\ chunk_size' = chunk_size
         /\ IF chunk_no = Len(chunks)
            THEN PassSucceeded(translated_chunks', Len(chunks)) /\ chunk_no' = chunk_no
            ELSE chunk_no' = chunk_no + 1 /\ UNCHANGED <<pc, ret, progress>>
    ELSE IF chunk_no < Len(chunks)
    THEN /\ chunk_no' = chunk_no + 1
         /\ UNCHANGED <<pc, chunk_size, translated_chunks, ret, progress>>
    ELSE /\ PassFailed
         /\ UNCHANGED <<translated_chunks, chunk_no, ret, progress>>

\* What follows the call for the chunk in hand (lines 272-306); an exception
\* other than TranslationError is caught at line 301
AfterChunk(outcome) ==
    IF outcome.kind = "return"
    THEN /\ translated_chunks' = Append(translated_chunks, outcome.content)
         /\ chunk_size' = chunk_size
         /\ IF chunk_no = Len(chunks)
            THEN PassSucceeded(translated_chunks', Len(chunks)) /\ chunk_no' = chunk_no
            ELSE chunk_no' = chunk_no + 1 /\ UNCHANGED <<pc, ret, progress>>
    ELSE IF outcome.exc = "TranslationError"
    THEN /\ PassFailed
         /\ UNCHANGED <<translated_chunks, chunk_no, ret, progress>>
    ELSE /\ pc' = "while"
         /\ chunk_size' = chunk_size \div 2
         /\ UNCHANGED <<translated_chunks, chunk_no, ret, progress>>

\* Lines 265-306: the call for the chunk in hand
TranslateChunk ==
    /\ pc = "chunk"
    /\ \E behaviour \in Replies, fs \in FsOutcomes :
         \E outcome \in {Endpoint(model_list[model_idx], chunks[chunk_no],
                                  behaviour, debug, fs)} :
             /\ AfterChunk(outcome)
             /\ requests' = Append(requests,
                                   Request(model_idx, chunk_size, chunk_no, behaviour,
                                           outcome))
    /\ UNCHANGED <<outside, html, model_list, debug, progress0, model_idx, chunks, call>>

\* The model tried after the one at position k (line 311, "continue")
NextModel(k) == k + 1

\* A variant of ModelFailed that starts the list again when its last model fails
ModelFailedRestarts ==
    /\ pc = "failed"
    /\ model_idx' = IF model_idx < Len(model_list) THEN model_idx + 1 ELSE 1
    /\ pc' = "for"
    /\ UNCHANGED <<outside, html, model_list, debug, progress, progress0, chunk_size, chunks,
                   chunk_no, translated_chunks, ret, requests, call>>

\* A variant of ModelFailed that raises as soon as one model fails
ModelFailedRaisesEarly ==
    /\ pc = "failed"
    /\ ret' = Raise("TranslationError",
                    <<"All models (">> \o JoinNames(model_list) \o <<") failed">>)
    /\ pc' = "raised"
    /\ UNCHANGED <<outside, html, model_list, debug, progress, progress0, model_idx, chunk_size,
                   chunks, chunk_no, translated_chunks, requests, call>>

\* Lines 308-314: the model failed entirely
ModelFailed ==
    /\ pc = "failed"
    /\ IF model_idx < Len(model_list)
       THEN /\ model_idx' = NextModel(model_idx)
            /\ pc' = "for"
            /\ ret' = ret
       ELSE /\ ret' = Raise("TranslationError",
                            <<"All models (">> \o JoinNames(model_list)
                                \o <<") failed">>)
            /\ pc' = "raised"
            /\ model_idx' = model_idx
    /\ UNCHANGED <<outside, html, model_list, debug, progress, progress0, chunk_size, chunks,
                   chunk_no, translated_chunks, requests, call>>

Next == ForModel \/ FullAttempt \/ WhileChunkSize \/ TranslateChunk \/ ModelFailed

Spec == Init /\ [][Next]_vars

\* The call goes on as long as it has a step to take: every request returns or
\* fails, and the interpreter runs the statements between two requests
SpecFair == Init /\ [][Next]_vars /\ WF_vars(Next)

(***************************************************************************)
(* _translate_once on its own: one call on a block of a document           *)
(***************************************************************************)
InitOnce ==
    /\ html \in DocIds
    /\ model_list = SubSeq(AllModels, 1, MaxModels)
    /\ debug \in BOOLEAN
    /\ progress = [k \in {} |-> 0]
    /\ progress0 = progress
    /\ pc = "once"
    /\ model_idx = 1
    /\ chunk_size = 0
    /\ chunks = <<>>
    /\ chunk_no = 1
    /\ translated_chunks = <<>>
    /\ ret = NoResult
    /\ requests = <<>>
    /\ call = NoCall
    /\ OutsideIdle

\* One call of _translate_once on a block of the document
CallOnce ==
    /\ pc = "once"
    /\ \E k \in 1..Len(model_list), ref \in BlockRefs(html),
          behaviour \in Behaviours, fs \in FsOutcomes :
         call' = [m |-> model_list[k], ref |-> ref, behaviour |-> behaviour,
                  dbg |-> debug, fs |-> fs,
                  outcome |-> Endpoint(model_list[k], ref, behaviour, debug, fs),
                  posted |-> Posted(model_list[k], ref,
                                    Response(behaviour,
                                             Content(behaviour, model_list[k], ref)),
                                    debug, fs)]
    /\ pc' = "called"
    /\ UNCHANGED <<outside, html, model_list, debug, progress, progress0, model_idx,
                   chunk_size, chunks, chunk_no, translated_chunks, ret, requests>>

NextOnce == CallOnce

SpecOnce == InitOnce /\ [][NextOnce]_vars

(***************************************************************************)
(* Properties of translate_with_chunking, read off the history of requests *)
(***************************************************************************)
AllOk == [write |-> TRUE, update |-> TRUE]

LastRequest == requests[Len(requests)]

\* The call returned the response to a whole-document request
ReturnedWhole ==
    pc = "returned" /\ requests # <<>> /\ LastRequest.size = 0 /\ LastRequest.ok

\* The call returned the pieces of a chunking pass
ReturnedByPass == pc = "returned" /\ ~ReturnedWhole

\* The position in the list of the model the call returned
ReturnedIdx == CHOOSE n \in DOMAIN model_list : model_list[n] = ret.model

\* The model at position n failed a whole-document request
FullFailed(n) ==
    \E p \in DOMAIN requests :
        requests[p].m = n /\ requests[p].size = 0 /\ ~requests[p].ok

\* The model at position n got a whole-document request that returned
FullReturned(n) ==
    \E p \in DOMAIN requests :
        requests[p].m = n /\ requests[p].size = 0 /\ requests[p].ok

\* The chunk sizes of the passes of the model at position n
PassSizes(n) ==
    {requests[p].size : p \in {q \in DOMAIN requests :
                                  requests[q].m = n /\ requests[q].size > 0}}

\* Every pass of the model at position n has a piece that failed
EveryPassFailed(n) ==
    \A size \in PassSizes(n) :
        \E p \in DOMAIN requests :
            requests[p].m = n /\ requests[p].size = size /\ ~requests[p].ok

\* What the model answered to request p, as _translate_once hands it on
Output(p) ==
    Strip(Content(requests[p].answer, model_list[requests[p].m],
                  [d |-> html, size |-> requests[p].size, piece |-> requests[p].piece]))

\* The positions of the requests of the attempt the call returned from
AttemptPositions ==
    IF ReturnedWhole THEN {Len(requests)}
    ELSE (Len(requests) - Len(chunks) + 1)..Len(requests)

\* C1: a whole-document request that succeeds is the last request of the call,
\* which returns that response and the name of the model it was sent to.
C1_WholeSuccessReturns ==
    \A p \in DOMAIN requests :
        (requests[p].size = 0 /\ requests[p].ok) =>
            /\ p = Len(requests)
            /\ pc = "returned"
            /\ ret.kind = "return"
            /\ ret.model = model_list[requests[p].m]
            /\ ret.result = Output(p)

\* C1 witness: the second model's whole-document request succeeded after the
\* first model had been given chunks
C1_Witness ==
    /\ ReturnedWhole
    /\ LastRequest.m = 2
    /\ \E p \in DOMAIN requests : requests[p].m = 1 /\ requests[p].size > 0

\* C2: when the call returns model M, every model before M in the list failed
\* its whole-document request and every one of its chunking passes, and M is
\* the model whose attempt succeeded.
C2_EarlierModelsFailed ==
    pc = "returned" =>
        /\ ret.model \in {model_list[n] : n \in DOMAIN model_list}
        /\ \A n \in 1..(ReturnedIdx - 1) : FullFailed(n) /\ EveryPassFailed(n)
        /\ \A p \in AttemptPositions : requests[p].ok /\ requests[p].m = ReturnedIdx
        /\ ReturnedByPass => FullFailed(ReturnedIdx)

\* C2 witness: the second model is returned from a chunking pass after the
\* first model had a piece translated
C2_Witness ==
    /\ ReturnedByPass
    /\ ReturnedIdx = 2
    /\ \E p \in DOMAIN requests : requests[p].m = 1 /\ requests[p].ok

\* C3: the returned text is the concatenation of the outputs of the requests of
\* one attempt of the returned model: the whole-document request, or the
\* pieces 1..k of a single pass, in order.
C3_ResultFromOneAttempt ==
    pc = "returned" =>
        /\ \A p \in AttemptPositions :
              /\ p \in DOMAIN requests
              /\ requests[p].ok
              /\ model_list[requests[p].m] = ret.model
              /\ requests[p].size = LastRequest.size
              /\ requests[p].piece = p - (Len(requests) - Cardinality(AttemptPositions))
        /\ ret.result =
              Join([j \in 1..Cardinality(AttemptPositions) |->
                       Output(Len(requests) - Cardinality(AttemptPositions) + j)])

\* C3 witness: a pass of two or more pieces is returned although an earlier
\* pass, now abandoned, had a piece translated
C3_Witness ==
    /\ ReturnedByPass
    /\ Len(chunks) >= 2
    /\ \E p \in DOMAIN requests : p \notin AttemptPositions /\ requests[p].ok

\* C4: the positions of the models in the history never decrease: after a
\* request to the model at position j no request goes to a model before j.
C4_ModelsInListOrder ==
    \A p \in DOMAIN requests : \A q \in DOMAIN requests :
        p < q => requests[p].m <= requests[q].m

\* C4 witness: the second model is sent a request after the first was given up
C4_Witness ==
    /\ Len(requests) >= 2
    /\ requests[1].m = 1
    /\ LastRequest.m = 2

\* A message names a model
Names(msg, model) == \E j \in DOMAIN msg : msg[j] = model

\* C5: the call raises TranslationError only; when it raises, the message
\* names every model of the list, every model has failed its whole-document
\* request and each of its passes, and no attempt has succeeded.
C5_RaisesAfterAllModels ==
    /\ ret.kind = "raise" <=> pc = "raised"
    /\ pc = "raised" =>
          /\ ret.exc = "TranslationError"
          /\ \A n \in DOMAIN model_list :
                /\ Names(ret.msg, model_list[n])
                /\ FullFailed(n)
                /\ ~FullReturned(n)
                /\ EveryPassFailed(n)

\* C5 witness: a list of two models is exhausted, chunks included
C5_Witness ==
    /\ pc = "raised"
    /\ Len(model_list) = 2
    /\ \E p \in DOMAIN requests : requests[p].m = 2 /\ requests[p].size > 0

\* C9: the progress dict is written only when the call returns through a
\* chunking pass: chunk_parts is then the number of pieces of that pass and the
\* other keys are as they were; in every other state the dict is as it was at
\* the call.
C9_ProgressOnlyOnPassSuccess ==
    IF ReturnedByPass
    THEN /\ DOMAIN progress = DOMAIN progress0 \cup {"chunk_parts"}
         /\ progress["chunk_parts"] = Len(Split(html, chunk_size))
         /\ progress["chunk_parts"] = Cardinality(AttemptPositions)
         /\ \A key \in DOMAIN progress0 \ {"chunk_parts"} : progress[key] = progress0[key]
    ELSE progress = progress0

\* C9 witness: a pass of three pieces is returned to a caller whose dict held
\* another chunk_parts, and a pass had failed before
C9_Witness ==
    /\ ReturnedByPass
    /\ Len(chunks) = 3
    /\ "chunk_parts" \in DOMAIN progress0
    /\ progress0["chunk_parts"] # 3
    /\ \E p \in DOMAIN requests : requests[p].size > chunk_size

\* The document has a body wrapper
HasWrapper(text) == extract_html_structure(text).prefix # <<>>

\* C10: after a pass of two or more pieces on a document with a body wrapper,
\* every piece answered with its wrapper kept, the returned document holds the
\* structural prefix once and the structural suffix once.
C10_StructureOnce ==
    (/\ ReturnedByPass
     /\ Len(chunks) >= 2
     /\ HasWrapper(AllDocs[html])
     /\ \A p \in AttemptPositions : requests[p].answer = "faithful")
    => /\ Count(ret.result, extract_html_structure(AllDocs[html]).prefix) = 1
       /\ Count(ret.result, extract_html_structure(AllDocs[html]).suffix) = 1

(***************************************************************************)
(* Properties of _translate_once, read off a single call                   *)
(***************************************************************************)
\* C6: the call returns a body only if validate_translation accepts it for the
\* block that was sent.
C6_ReturnsOnlyValidated ==
    (pc = "called" /\ call.outcome.kind = "return") =>
        validate_translation(BlockText(call.ref), call.outcome.content).valid

\* The ways a single request fails apart from empty content
Failures ==
    {"timeout", "connection_error", "http_error", "invalid_json", "missing_message",
     "missing_content", "null_content"}

\* The content of the response is empty or white space only
EmptyContent(content) == \A j \in DOMAIN content : content[j] \in Whitespace

\* C7: every failure of the request (transport, status, envelope, empty
\* content) is raised as TranslationError; a call that does not fail returns a
\* non-empty string.
C7_FailuresAreTranslationError ==
    pc = "called" =>
        IF \/ call.behaviour \in Failures
           \/ EmptyContent(Content(call.behaviour, call.m, call.ref))
        THEN call.outcome.kind = "raise" /\ call.outcome.exc = "TranslationError"
        ELSE call.outcome.kind = "return" /\ call.outcome.content # <<>>

\* C7 witness: a response whose content is null, which str.strip cannot take
C7_Witness ==
    /\ pc = "called"
    /\ call.behaviour = "null_content"
    /\ call.outcome.exc = "TranslationError"

\* C8: a call has the outcome the same call has with debug off, whatever
\* happens to the debug file.
C8_DebugDoesNotChangeOutcome ==
    pc = "called" =>
        call.outcome = Endpoint(call.m, call.ref, call.behaviour, FALSE, AllOk)

\* C8 witness: debug is on, the debug file can be neither written nor read
\* back, and the call returns the translation
C8_Witness ==
    /\ pc = "called"
    /\ call.dbg
    /\ ~call.fs.write
    /\ ~call.fs.update
    /\ call.behaviour = "faithful"
    /\ call.outcome.kind = "return"

\* C31: a call of _translate_once posts exactly one request, for the model
\* and the block it was given, whether it then returns or raises: nothing is
\* sent a second time.
C31_OneRequestPerCall ==
    pc = "called" => call.posted = <<[model |-> call.m, ref |-> call.ref]>>

\* A call in debug mode whose debug file could not be written and whose
\* response was rejected has posted its one request
C31_Witness ==
    /\ pc = "called"
    /\ call.dbg /\ ~call.fs.write
    /\ call.outcome.kind = "raise"
    /\ Len(call.posted) = 1

(***************************************************************************)
(* The splitter functions applied on their own to small documents          *)
(***************************************************************************)
\* The pieces small documents are put together from
Tokens ==
    << <<"<", "b", "o", "d", "y", ">">>,
       <<"<", "/", "b", "o", "d", "y", ">">>,
       <<"<", "p", " ", "c", ">">>,
       <<"<", "/", "p", ">">>,
       <<"x">>,
       <<"\n">> >>

\* The largest number of tokens in a small document
MaxTokens == 4

\* The small documents: every sequence of at most MaxTokens tokens, joined
SmallDocs ==
    UNION { { Join([j \in 1..n |-> Tokens[f[j]]]) : f \in [1..n -> 1..Len(Tokens)] } :
            n \in 0..MaxTokens }

\* The target sizes the small documents are split at
TargetSizes == {2, 3, 7}

InitSplitter ==
    /\ applied = "none"
    /\ arg_text \in SmallDocs
    /\ arg_size \in TargetSizes
    /\ fn_result = <<>>
    /\ split_remaining = <<>>
    /\ split_chunks = <<>>
    /\ EngineIdle
    /\ StoreIdle
    /\ CliIdle
    /\ PureIdle

\* prefix, body_content, suffix = extract_html_structure(html)
ApplyExtract ==
    /\ applied = "none"
    /\ applied' = "extract_html_structure"
    /\ fn_result' = extract_html_structure(arg_text)
    /\ UNCHANGED <<engine, store, cli, pure, arg_text, arg_size, split_remaining,
                   split_chunks>>

\* chunks = smart_html_split(html, target_size)
ApplySplit ==
    /\ applied = "none"
    /\ applied' = "smart_html_split"
    /\ fn_result' = smart_html_split(arg_text, arg_size)
    /\ UNCHANGED <<engine, store, cli, pure, arg_text, arg_size, split_remaining,
                   split_chunks>>

\* chunks = smart_html_split_with_structure(html, target_size)
ApplySplitWithStructure ==
    /\ applied = "none"
    /\ applied' = "smart_html_split_with_structure"
    /\ fn_result' = smart_html_split_with_structure(arg_text, arg_size)
    /\ UNCHANGED <<engine, store, cli, pure, arg_text, arg_size, split_remaining,
                   split_chunks>>

NextSplitter == ApplyExtract \/ ApplySplit \/ ApplySplitWithStructure

SpecSplitter == InitSplitter /\ [][NextSplitter]_vars

\* C17: extract_html_structure returns a (prefix, body, suffix) for every input,
\* and prefix + body + suffix is the input, character for character.
C17_ExtractIsLossless ==
    applied = "extract_html_structure" =>
        /\ DOMAIN fn_result = {"prefix", "body", "suffix"}
        /\ fn_result.prefix \o fn_result.body \o fn_result.suffix = arg_text

\* C18: every piece of smart_html_split_with_structure is the document's prefix,
\* one piece of its body and the document's suffix; extract_html_structure gives
\* back that prefix and that suffix from every piece; and a document whose body
\* is no longer than target_size comes back as one piece, unchanged.
C18_PiecesKeepStructure ==
    applied = "smart_html_split_with_structure" =>
        LET st          == extract_html_structure(arg_text)
            body_chunks == smart_html_split(st.body, arg_size)
        IN  /\ Len(fn_result) = Len(body_chunks)
            /\ \A i \in 1..Len(fn_result) :
                 /\ fn_result[i] = st.prefix \o body_chunks[i] \o st.suffix
                 /\ extract_html_structure(fn_result[i]).prefix = st.prefix
                 /\ extract_html_structure(fn_result[i]).suffix = st.suffix
            /\ Len(st.body) <= arg_size => fn_result = <<arg_text>>

\* b is the pieces in parts, in order, with nothing but whitespace between two
\* pieces and after the last one, and nothing before the first one
RECURSIVE OnlyCutsTrimmed(_, _)
OnlyCutsTrimmed(b, parts) ==
    IF parts = <<>> THEN \A j \in 1..Len(b) : b[j] \in Whitespace
    ELSE /\ StartsWith(b, Head(parts))
         /\ \E k \in 0..(Len(b) - Len(Head(parts))) :
              /\ \A j \in 1..k : b[Len(Head(parts)) + j] \in Whitespace
              /\ OnlyCutsTrimmed(SliceFrom(b, Len(Head(parts)) + k), Tail(parts))

\* C19: the pieces of smart_html_split(b, t), concatenated, are b except for
\* whitespace removed where b was cut: no other character is dropped, added or
\* moved, and no whitespace is removed anywhere else.
C19_OnlyWhitespaceAtCutsLost ==
    applied = "smart_html_split" => OnlyCutsTrimmed(arg_text, fn_result)

\* The structural markers of the small documents: the opening and the closing
\* paragraph tag
Markers == { <<"<", "p", " ", "c", ">">>, <<"<", "/", "p", ">">> }

\* C20: every structural marker occurs in the concatenated pieces of
\* smart_html_split(b, t) exactly as many times as in b.
C20_MarkerCountsKept ==
    applied = "smart_html_split" =>
        \A marker \in Markers : Count(Join(fn_result), marker) = Count(arg_text, marker)

\* C21: smart_html_split(b, t) is exactly [b], b untouched (not trimmed),
\* whenever b is no longer than t.
C21_FittingBodyIsOnePiece ==
    (applied = "smart_html_split" /\ Len(arg_text) <= arg_size) =>
        fn_result = <<arg_text>>

\* A fitting body that begins and ends with whitespace came back as it was
C21_Witness ==
    /\ applied = "smart_html_split"
    /\ Len(arg_text) <= arg_size
    /\ Len(arg_text) >= 3
    /\ arg_text[1] \in Whitespace
    /\ arg_text[Len(arg_text)] \in Whitespace
    /\ fn_result = <<arg_text>>

(***************************************************************************)
(* Progress store: hash_key, load_progress, save_progress                  *)
(* (libs/epub_utils.py) on a file system shared by concurrent runs         *)
(***************************************************************************)
\* The Python values a progress record is made of.  A dict is the sequence of
\* its <<key, value>> items in insertion order.
PyStr(text) == [py |-> "str", str |-> text, int |-> 0, items |-> <<>>]

PyInt(n) == [py |-> "int", str |-> "", int |-> n, items |-> <<>>]

PyDict(items) == [py |-> "dict", str |-> "", int |-> 0, items |-> items]

\* The tokens of a JSON text: a string literal, a number, a punctuation mark
Tok(kind, text) == [kind |-> kind, text |-> text]

\* The decimal digits, for the numbers a record holds
Digits == <<"0", "1", "2", "3", "4", "5", "6", "7", "8", "9">>

\* json.dumps(value, indent=2, ensure_ascii=False), token by token (the
\* whitespace of the indentation is not a token)
RECURSIVE dumps(_)
RECURSIVE DumpItems(_)
DumpItems(items) ==
    IF items = <<>> THEN <<>>
    ELSE <<Tok("str", Head(items)[1]), Tok(":", "")>> \o dumps(Head(items)[2])
         \o (IF Len(items) > 1 THEN <<Tok(",", "")>> ELSE <<>>)
         \o DumpItems(Tail(items))

dumps(value) ==
    CASE value.py = "str"  -> <<Tok("str", value.str)>>
      [] value.py = "int"  -> <<Tok("int", Digits[value.int + 1])>>
      [] value.py = "dict" -> <<Tok("{", "")>> \o DumpItems(value.items) \o <<Tok("}", "")>>

\* What a parser returns: the value read and the tokens left, or a failure
Parsed(value, rest) == [ok |-> TRUE, value |-> value, rest |-> rest]

ParseError == [ok |-> FALSE, value |-> PyDict(<<>>), rest |-> <<>>]

\* json.loads, token by token: a value is a string, a number or an object;
\* ParseMembers reads the members of an object after its '{' or after a ','
RECURSIVE ParseValue(_)
RECURSIVE ParseMembers(_, _)
ParseMembers(toks, items) ==
    IF Len(toks) < 3 \/ toks[1].kind # "str" \/ toks[2].kind # ":" THEN ParseError
    ELSE LET member == ParseValue(SubSeq(toks, 3, Len(toks)))
             more   == Append(items, <<toks[1].text, member.value>>)
         IN  IF ~member.ok \/ member.rest = <<>> THEN ParseError
             ELSE IF Head(member.rest).kind = "}"
             THEN Parsed(PyDict(more), Tail(member.rest))
             ELSE IF Head(member.rest).kind = ","
             THEN ParseMembers(Tail(member.rest), more)
             ELSE ParseError

ParseValue(toks) ==
    IF toks = <<>> THEN ParseError
    ELSE CASE toks[1].kind = "str" -> Parsed(PyStr(toks[1].text), Tail(toks))
           [] toks[1].kind = "int" ->
                Parsed(PyInt((CHOOSE n \in 1..Len(Digits) : Digits[n] = toks[1].text) - 1),
                       Tail(toks))
           [] toks[1].kind = "{" ->
                IF Len(toks) >= 2 /\ toks[2].kind = "}"
                THEN Parsed(PyDict(<<>>), SubSeq(toks, 3, Len(toks)))
                ELSE ParseMembers(Tail(toks), <<>>)
           [] OTHER -> ParseError

\* json.loads(text): the value, or JSONDecodeError when the text is not one
\* complete JSON value
loads(toks) ==
    LET top == ParseValue(toks)
    IN  IF top.ok /\ top.rest = <<>> THEN Parsed(top.value, <<>>) ELSE ParseError

\* A path: the name up to its last suffix, and that suffix
Path(stem, suffix) == [stem |-> stem, suffix |-> suffix]

\* path.with_suffix(suffix)
with_suffix(path, suffix) == [path EXCEPT !.suffix = suffix]

\* A path that does not exist, and a file with its content
Missing == [exists |-> FALSE, data |-> <<>>]

File(data) == [exists |-> TRUE, data |-> data]

\* load_progress(path) on the files fs: the record read and whether the call
\* returned (json.loads raises on a text that is not complete)
load_progress(fs, path) ==
    IF fs[path].exists THEN loads(fs[path].data) ELSE Parsed(PyDict(<<>>), <<>>)

\* The locations runs keep their progress at, and every file these name
TargetPaths == {Path("a", ".json"), Path("a", ".bak"), Path("b", ".tmp")}

Files == TargetPaths \cup {with_suffix(path, ".tmp") : path \in TargetPaths}

\* No file: the descriptor of a run that has no file open, or whose file has
\* been replaced under it
NoFile == Path("", "")

\* The record an earlier run left at a location
Earlier == PyDict(<< <<"translated", PyDict(<< <<"k0", PyStr("t0")>> >>)>> >>)

\* The records run r saves: its translations, without and with chunk_parts
Records(r) ==
    LET translated == <<"translated",
                        PyDict(<< << <<"k1", "k2">>[r], PyStr(<<"t1", "t2">>[r]) >> >>)>>
    IN  { PyDict(<<translated>>), PyDict(<<translated, <<"chunk_parts", PyInt(r)>> >>) }

\* The largest number of save_progress calls of all runs together
MaxSaves == 2

\* The number of tokens one write to the file system carries
BlockLen == 4

Never == [some |-> FALSE, rec |-> PyDict(<<>>)]

Some(rec) == [some |-> TRUE, rec |-> rec]

\* A run at the location path that has not called the store yet, and no run
Run(path) ==
    [path |-> path, pc |-> "idle", rec |-> PyDict(<<>>), fd |-> NoFile, offset |-> 0,
     loaded |-> PyDict(<<>>), saves |-> 0]

Absent == [Run(NoFile) EXCEPT !.pc = "absent"]

\* One run, or two runs at different locations; each location is new or holds
\* the record of an earlier run
InitStore ==
    /\ \E p1 \in TargetPaths : \E p2 \in (TargetPaths \cup {NoFile}) \ {p1} :
         /\ proc = <<Run(p1), IF p2 = NoFile THEN Absent ELSE Run(p2)>>
         /\ saved \in [TargetPaths -> {Never, Some(Earlier)}]
         /\ \A path \in TargetPaths \ {p1, p2} : saved[path] = Never
    /\ disk = [f \in Files |->
                 IF f \in TargetPaths /\ saved[f].some
                 THEN File(dumps(saved[f].rec)) ELSE Missing]
    /\ EngineIdle
    /\ SplitterIdle
    /\ CliIdle
    /\ PureIdle

\* The number of save_progress calls the runs from q on have made
RECURSIVE SavesFrom(_)
SavesFrom(q) == IF q > Len(proc) THEN 0 ELSE proc[q].saves + SavesFrom(q + 1)

\* Run r is the only run
Alone(r) == \A q \in DOMAIN proc : q # r => proc[q].pc = "absent"

\* save_progress(path, progress) is called with one of the run's records
BeginSave ==
    \E r \in DOMAIN proc :
    /\ proc[r].pc \in {"idle", "loaded"}
    /\ SavesFrom(1) < MaxSaves
    /\ \E rec \in Records(r) :
         proc' = [proc EXCEPT ![r].pc = "open", ![r].rec = rec, ![r].saves = @ + 1]
    /\ UNCHANGED <<engine, splitter, cli, pure, disk, saved>>

\* temp.write_text(...) opens temp for writing: the file is created, or the
\* file that is there is emptied
OpenTemp ==
    \E r \in DOMAIN proc :
    LET temp == with_suffix(proc[r].path, ".tmp")
    IN  /\ proc[r].pc = "open"
        /\ disk' = [disk EXCEPT ![temp] = File(<<>>)]
        /\ proc' = [proc EXCEPT ![r].pc = "write", ![r].fd = temp, ![r].offset = 0]
        /\ UNCHANGED <<engine, splitter, cli, pure, saved>>

\* The content data after block is written at offset (a gap is filled with
\* null tokens)
WriteAt(data, offset, block) ==
    [i \in 1..MaxOf(Len(data), offset + Len(block)) |->
        IF i > offset /\ i <= offset + Len(block) THEN block[i - offset]
        ELSE IF i <= Len(data) THEN data[i]
        ELSE Tok("nul", "")]

\* A variant of Replace that removes the source and leaves the target as it was
ReplaceDropsSource(fs, source, target) ==
    IF source = target THEN fs
    ELSE [fs EXCEPT ![source] = Missing]

\* temp.replace(path): the file at source takes the place of target
Replace(fs, source, target) ==
    IF source = target THEN fs
    ELSE [fs EXCEPT ![target] = fs[source], ![source] = Missing]

\* The descriptor fd of another run after source has replaced target
Retarget(fd, source, target) ==
    IF source = target THEN fd
    ELSE IF fd = source THEN target
    ELSE IF fd = target THEN NoFile
    ELSE fd

\* temp.write_text(...) writes the next block of json.dumps(progress) and
\* closes the file after the last one
WriteBlock ==
    \E r \in DOMAIN proc :
    LET text  == dumps(proc[r].rec)
        upto  == MinOf(Len(text), proc[r].offset + BlockLen)
        block == SubSeq(text, proc[r].offset + 1, upto)
    IN  /\ proc[r].pc = "write"
        /\ disk' = IF proc[r].fd = NoFile THEN disk
                   ELSE [disk EXCEPT ![proc[r].fd].data = WriteAt(@, proc[r].offset, block)]
        /\ proc' = IF upto = Len(text)
                   THEN [proc EXCEPT ![r].pc = "replace", ![r].fd = NoFile, ![r].offset = 0]
                   ELSE [proc EXCEPT ![r].offset = upto]
        /\ UNCHANGED <<engine, splitter, cli, pure, saved>>

\* temp.replace(path) ends save_progress; it raises FileNotFoundError when
\* temp is not there
ReplaceTemp ==
    \E r \in DOMAIN proc :
    LET temp == with_suffix(proc[r].path, ".tmp")
    IN  /\ proc[r].pc = "replace"
        /\ IF disk[temp].exists
           THEN /\ disk' = Replace(disk, temp, proc[r].path)
                /\ proc' = [q \in DOMAIN proc |->
                              IF q = r
                              THEN [proc[q] EXCEPT !.pc = "idle"]
                              ELSE [proc[q] EXCEPT !.fd = Retarget(@, temp, proc[r].path)]]
                /\ saved' = [saved EXCEPT ![proc[r].path] = Some(proc[r].rec)]
           ELSE /\ proc' = [proc EXCEPT ![r].pc = "failed"]
                /\ UNCHANGED <<disk, saved>>
        /\ UNCHANGED <<engine, splitter, cli, pure>>

\* prog = load_progress(path)
Load ==
    \E r \in DOMAIN proc :
    /\ proc[r].pc = "idle"
    /\ \E read \in {load_progress(disk, proc[r].path)} :
         proc' = IF read.ok
                 THEN [proc EXCEPT ![r].pc = "loaded", ![r].loaded = read.value]
                 ELSE [proc EXCEPT ![r].pc = "failed"]
    /\ UNCHANGED <<engine, splitter, cli, pure, disk, saved>>

\* The process of run r stops in the middle of save_progress
Stop ==
    \E r \in DOMAIN proc :
    /\ proc[r].pc \in {"open", "write", "replace"}
    /\ proc' = [proc EXCEPT ![r].pc = "stopped", ![r].fd = NoFile]
    /\ UNCHANGED <<engine, splitter, cli, pure, disk, saved>>

NextStore == BeginSave \/ OpenTemp \/ WriteBlock \/ ReplaceTemp \/ Load \/ Stop

SpecStore == InitStore /\ [][NextStore]_vars

\* The content of the location of run r is the complete text of rec
Holds(r, rec) == disk[proc[r].path] = File(dumps(rec))

\* C11: wherever a run that is alone stops during save_progress(path, record),
\* the target holds the complete record saved before (or nothing, when nothing
\* was saved before) or the complete new record, whatever the target path.
C11_SaveIsAtomic ==
    \A r \in DOMAIN proc :
        Alone(r) /\ proc[r].pc \in {"open", "write", "replace", "stopped"} =>
            \/ Holds(r, proc[r].rec)
            \/ IF saved[proc[r].path].some
               THEN Holds(r, saved[proc[r].path].rec)
               ELSE disk[proc[r].path] = Missing

\* C12: in a run that is alone, load_progress returns the record of the last
\* completed save_progress on the path, whatever was saved before it, and the
\* empty record when nothing was ever saved there; it never raises.
C12_LoadReturnsLastSave ==
    \A r \in DOMAIN proc :
        Alone(r) =>
            /\ proc[r].pc # "failed"
            /\ proc[r].pc = "loaded" =>
                 proc[r].loaded = IF saved[proc[r].path].some
                                  THEN saved[proc[r].path].rec
                                  ELSE PyDict(<<>>)

\* A run alone has saved twice, the second time over its own first record, and
\* has loaded the second record
C12_Witness ==
    \E r \in DOMAIN proc :
        /\ Alone(r)
        /\ proc[r].pc = "loaded"
        /\ proc[r].saves >= 2
        /\ proc[r].loaded = proc[r].rec
        /\ proc[r].rec \in Records(r)

\* C16: two concurrent runs at different locations do not interfere, however
\* their save_progress steps interleave: no call of either run fails, and
\* whenever a run has completed a save and is not saving again, its location
\* holds the complete record it saved last.
C16_RunsDoNotInterfere ==
    \A r \in DOMAIN proc :
        ~Alone(r) /\ proc[r].pc # "absent" =>
            /\ proc[r].pc # "failed"
            /\ proc[r].pc \in {"idle", "loaded"} /\ proc[r].saves > 0 =>
                 Holds(r, proc[r].rec)

(***************************************************************************)
(* Postprocessor: convert_translator_notes_to_footnotes (libs/notes.py)    *)
(***************************************************************************)
\* The literal the pattern r"\[Translator's note:\s*(.*?)\]" begins with
NoteOpen ==
    << "[", "T", "r", "a", "n", "s", "l", "a", "t", "o", "r", "'", "s", " ",
       "n", "o", "t", "e", ":" >>

\* str(n) for an integer n
RECURSIVE Decimal(_)
Decimal(n) ==
    IF n < 0 THEN <<"-">> \o Decimal(-n)
    ELSE IF n < 10
    THEN <<CASE n = 0 -> "0" [] n = 1 -> "1" [] n = 2 -> "2" [] n = 3 -> "3"
             [] n = 4 -> "4" [] n = 5 -> "5" [] n = 6 -> "6" [] n = 7 -> "7"
             [] n = 8 -> "8" [] OTHER -> "9">>
    ELSE Decimal(n \div 10) \o Decimal(n % 10)

\* ref = f"note{counter}"
NoteRef(counter) == <<"n", "o", "t", "e">> \o Decimal(counter)

\* sup = f'<sup><a href="#ref{ref}" id="ref{ref}">{counter}</a></sup>'
Sup(counter) ==
    << "<", "s", "u", "p", ">", "<", "a", " ", "h", "r", "e", "f", "=", "\"",
       "#", "r", "e", "f" >>
    \o NoteRef(counter) \o
    << "\"", " ", "i", "d", "=", "\"", "r", "e", "f" >>
    \o NoteRef(counter) \o <<"\"", ">">> \o Decimal(counter) \o
    << "<", "/", "a", ">", "<", "/", "s", "u", "p", ">" >>

\* note_html = f'<p id="{ref}"><sup><a href="#ref{ref}">{counter}</a></sup> {content}</p>'
NoteHtml(counter, content) ==
    << "<", "p", " ", "i", "d", "=", "\"" >>
    \o NoteRef(counter) \o
    << "\"", ">", "<", "s", "u", "p", ">", "<", "a", " ", "h", "r", "e", "f",
       "=", "\"", "#", "r", "e", "f" >>
    \o NoteRef(counter) \o <<"\"", ">">> \o Decimal(counter) \o
    << "<", "/", "a", ">", "<", "/", "s", "u", "p", ">", " " >>
    \o content \o <<"<", "/", "p", ">">>

\* The match of the pattern that begins at the 0-based offset i, where the
\* literal is: "\s*" takes the whole run of whitespace after the literal, then
\* "(.*?)\]" runs to the first ']' and fails when a line feed comes before it
\* ('.' does not match a line feed).  close is -1 when there is no match.
MatchFrom(text, i) ==
    LET after  == i + Len(NoteOpen)
        ws_end == CHOOSE j \in after..Len(text) :
                      /\ \A k \in (after + 1)..j : text[k] \in Whitespace
                      /\ j = Len(text) \/ text[j + 1] \notin Whitespace
        close  == Find(text, <<"]">>, ws_end, Len(text))
        feed   == Find(text, <<"\n">>, ws_end, Len(text))
    IN  [start |-> i,
         group |-> ws_end,
         close |-> IF close = -1 \/ (feed # -1 /\ feed < close) THEN -1 ELSE close]

\* The leftmost match of the pattern at or after the 0-based offset pos, or a
\* record with start = -1
search(text, pos) ==
    LET hits == {i \in pos..(Len(text) - Len(NoteOpen)) :
                    MatchAt(text, NoteOpen, i) /\ MatchFrom(text, i).close # -1}
    IN  IF hits = {} THEN [start |-> -1, group |-> -1, close |-> -1]
        ELSE MatchFrom(text, CHOOSE i \in hits : \A j \in hits : i <= j)

\* counter = 1 whatever start is
FirstCounterOne(start) == 1

\* "counter = start"
FirstCounter(start) == start

\* a repl that does not count
NextCounterStuck(counter) == counter

\* "counter += 1"
NextCounter(counter) == counter + 1

\* re.sub(pattern, repl, html) from the 0-based offset pos on, with repl's
\* counter: the text before each match is copied, the match is replaced by what
\* repl returns, and repl appends the footnote and counts
RECURSIVE sub(_, _, _)
sub(text, pos, counter) ==
    LET m == search(text, pos)
    IN  IF m.start = -1 THEN <<SliceFrom(text, pos), <<>>>>
        ELSE LET content == Strip(Slice(text, m.group, m.close))
                 rest    == sub(text, m.close + 1, NextCounter(counter))
             IN  << Slice(text, pos, m.start) \o Sup(counter) \o rest[1],
                    <<NoteHtml(counter, content)>> \o rest[2] >>

\* The tuple (processed, notes)
convert_translator_notes_to_footnotes(text, start) == sub(text, 0, FirstCounter(start))

\* "start: int = 1"
DefaultStart == 1

(***************************************************************************)
(* Command line loop: main and translate_with_fallback (cli.py)            *)
(***************************************************************************)
\* The segments documents are made of: the raw HTML of get_html_chunks, its
\* text (BeautifulSoup(raw, 'html.parser').get_text().strip()) and what the
\* orchestrator returns for it when it returns (also as the sequence of its
\* characters)
Segments ==
    << [raw |-> "<p>one</p>", text |-> "one", translated |-> "<p>un</p>",
        chars |-> << "<", "p", ">", "u", "n", "<", "/", "p", ">" >> ],
       [raw |-> "<div>one</div>", text |-> "one",
        translated |-> "<div>un [Translator's note: x]</div>",
        chars |->
          << "<", "d", "i", "v", ">", "u", "n", " ", "[", "T", "r", "a", "n", "s",
           "l", "a", "t", "o", "r", "'", "s", " ", "n", "o", "t", "e", ":", " ",
           "x", "]", "<", "/", "d", "i", "v", ">" >> ],
       [raw |-> "<p>two</p>", text |-> "two", translated |-> "<p>deux</p>",
        chars |-> << "<", "p", ">", "d", "e", "u", "x", "<", "/", "p", ">" >> ] >>

\* The largest number of segments of a document
MaxItems == 3

\* The documents: "if not chunks: return" leaves no empty one
Books == UNION {[1..n -> 1..Len(Segments)] : n \in 1..MaxItems}

\* The largest number of runs of the command over one document
MaxRuns == 2

\* hashlib.sha256(text.encode('utf-8')).hexdigest(): one key per text
hash_key(text) == "sha256:" \o text

\* ''.join(notes)
RECURSIVE JoinStr(_)
JoinStr(parts) ==
    IF parts = <<>> THEN ""
    ELSE IF Len(parts) = 1 THEN parts[1]
    ELSE JoinStr(SubSeq(parts, 1, Len(parts) \div 2))
             \o JoinStr(SubSeq(parts, Len(parts) \div 2 + 1, Len(parts)))

\* The keys of a dict
Keys(dict) == {dict.items[i][1] : i \in 1..Len(dict.items)}

\* The items of a dict, as a set
Items(dict) == {dict.items[i] : i \in 1..Len(dict.items)}

\* dict.get(key, default)
Get(dict, key, default) ==
    IF key \in Keys(dict)
    THEN dict.items[CHOOSE i \in 1..Len(dict.items) : dict.items[i][1] = key][2]
    ELSE default

\* dict[key] = value
SetItem(dict, key, value) ==
    IF key \in Keys(dict)
    THEN PyDict([i \in 1..Len(dict.items) |->
                    IF dict.items[i][1] = key THEN <<key, value>> ELSE dict.items[i]])
    ELSE PyDict(Append(dict.items, <<key, value>>))

\* A variant of Known that finds no key
KnownNever(dict, key) == FALSE

\* "if key in trans_map"
Known(dict, key) == key \in Keys(dict)

\* The progress files of the command, the debug file, and every file they name
Workspaces == {Path(".progress", ".json"), Path("b", ".tmp")}

debug_path == Path(".debug.translate", ".json")

CliFiles == Workspaces \cup {with_suffix(path, ".tmp") : path \in Workspaces} \cup {debug_path}

\* What the progress file holds before the first run, when it exists
StartRecords ==
    { PyDict(<<>>),
      PyDict(<< <<"translated", PyDict(<< <<hash_key("one"), PyStr("<p>un</p>")>> >>)>>,
                <<"chunk_parts", PyInt(3)>> >>) }

\* What translate_with_fallback does: it returns the translation of the whole
\* segment, or the joined translation of a pass (progress['chunk_parts'] set),
\* or it raises TranslationError
Fallbacks == {"whole", "pass", "raise"}

InitCli ==
    /\ workspace \in Workspaces
    /\ book \in Books
    /\ args_debug \in BOOLEAN
    /\ cli_pc = "start"
    /\ run_no = 1
    /\ item_no = 0
    /\ cli_prog = PyDict(<<>>)
    /\ trans_map = PyDict(<<>>)
    /\ debug_data = PyDict(<<>>)
    /\ sent = <<>>
    /\ held = <<>>
    /\ completed = {}
    /\ \E start \in {Missing} \cup {File(dumps(rec)) : rec \in StartRecords} :
         disk = [f \in CliFiles |-> IF f = workspace THEN start ELSE Missing]
    /\ saved = <<>>
    /\ proc = <<>>
    /\ EngineIdle
    /\ SplitterIdle
    /\ PureIdle

\* "prog = load_progress(workspace)" ... "bar = tqdm(...)": json.loads raises
\* on a file that is not one JSON value
Start ==
    /\ cli_pc = "start"
    /\ \E read \in {load_progress(disk, workspace)} :
         IF read.ok
         THEN /\ cli_prog' = read.value
              /\ trans_map' = Get(read.value, "translated", PyDict(<<>>))
              /\ held' = Append(held, Items(Get(read.value, "translated", PyDict(<<>>))))
              /\ cli_pc' = "for"
         ELSE /\ cli_pc' = "crashed"
              /\ UNCHANGED <<cli_prog, trans_map, held>>
    /\ debug_data' = IF args_debug /\ disk[debug_path].exists
                     THEN loads(disk[debug_path].data).value
                     ELSE PyDict(<<>>)
    /\ item_no' = 1
    /\ completed' = {}
    /\ UNCHANGED <<engine, splitter, store, pure, workspace, book, args_debug, run_no, sent>>

\* A variant of OnTranslationError that goes on with the next segment
OnTranslationErrorGoesOn(n) == [pc |-> "for", item |-> n + 1]

\* "except TranslationError as e: ... break"
OnTranslationError(n) == [pc |-> "broke", item |-> n]

\* The record of one call of translate_with_fallback in the history
Sent(key, ok) == [run |-> run_no, item |-> item_no, key |-> key, ok |-> ok]

\* One pass of "for item, raw in chunks" up to the call of save_progress
ForItem ==
    LET seg == Segments[book[item_no]]
        key == hash_key(seg.text)
    IN  /\ cli_pc = "for"
        /\ item_no <= Len(book)
        /\ IF Known(trans_map, key)
           THEN /\ item_no' = item_no + 1
                /\ UNCHANGED <<cli_pc, cli_prog, trans_map, debug_data, sent, disk>>
           ELSE \E fallback \in Fallbacks :
                  IF fallback = "raise"
                  THEN /\ sent' = Append(sent, Sent(key, FALSE))
                       /\ cli_pc' = OnTranslationError(item_no).pc
                       /\ item_no' = OnTranslationError(item_no).item
                       /\ UNCHANGED <<cli_prog, trans_map, debug_data, disk>>
                  ELSE \E conv \in {convert_translator_notes_to_footnotes(seg.chars, DefaultStart)} :
                       /\ sent' = Append(sent, Sent(key, TRUE))
                       /\ debug_data' = IF args_debug
                                        THEN SetItem(debug_data, seg.text, PyStr(seg.translated))
                                        ELSE debug_data
                       /\ disk' = IF args_debug
                                  THEN [disk EXCEPT ![debug_path] = File(dumps(debug_data'))]
                                  ELSE disk
                       /\ trans_map' = SetItem(trans_map, key,
                                               PyStr(JoinStr(conv[1] \o Join(conv[2]))))
                       /\ cli_prog' = SetItem(IF fallback = "pass"
                                              THEN SetItem(cli_prog, "chunk_parts", PyInt(2))
                                              ELSE cli_prog,
                                              "translated", trans_map')
                       /\ cli_pc' = "save"
                       /\ UNCHANGED item_no
        /\ UNCHANGED <<engine, splitter, pure, saved, proc, workspace, book, args_debug, run_no,
                       held, completed>>

\* save_progress(workspace, prog): temp.write_text(...) opens temp
SaveOpen ==
    /\ cli_pc = "save"
    /\ disk' = [disk EXCEPT ![with_suffix(workspace, ".tmp")] = File(<<>>)]
    /\ cli_pc' = "write"
    /\ UNCHANGED <<engine, splitter, pure, saved, proc, workspace, book, args_debug, run_no,
                   item_no, cli_prog, trans_map, debug_data, sent, held, completed>>

\* temp.write_text(...) writes json.dumps(prog) and closes temp
SaveWrite ==
    /\ cli_pc = "write"
    /\ disk' = [disk EXCEPT ![with_suffix(workspace, ".tmp")] = File(dumps(cli_prog))]
    /\ cli_pc' = "replace"
    /\ UNCHANGED <<engine, splitter, pure, saved, proc, workspace, book, args_debug, run_no,
                   item_no, cli_prog, trans_map, debug_data, sent, held, completed>>

\* temp.replace(path), "bar.update()" and on to the next segment
SaveReplace ==
    LET key == hash_key(Segments[book[item_no]].text)
    IN  /\ cli_pc = "replace"
        /\ disk' = Replace(disk, with_suffix(workspace, ".tmp"), workspace)
        /\ completed' = completed \cup {<<key, Get(trans_map, key, PyStr(""))>>}
        /\ item_no' = item_no + 1
        /\ cli_pc' = "for"
        /\ UNCHANGED <<engine, splitter, pure, saved, proc, workspace, book, args_debug, run_no,
                       cli_prog, trans_map, debug_data, sent, held>>

\* The for loop runs out of segments: "bar.close()" and the output is written
LoopEnd ==
    /\ cli_pc = "for"
    /\ item_no > Len(book)
    /\ cli_pc' = "done"
    /\ UNCHANGED <<engine, splitter, store, pure, workspace, book, args_debug, run_no, item_no,
                   cli_prog, trans_map, debug_data, sent, held, completed>>

\* The command is run again over the same document and progress file
Rerun ==
    /\ cli_pc \in {"done", "broke"}
    /\ run_no < MaxRuns
    /\ run_no' = run_no + 1
    /\ cli_pc' = "start"
    /\ UNCHANGED <<engine, splitter, store, pure, workspace, book, args_debug, item_no,
                   cli_prog, trans_map, debug_data, sent, held, completed>>

NextCli == Start \/ ForItem \/ SaveOpen \/ SaveWrite \/ SaveReplace \/ LoopEnd \/ Rerun

SpecCli == InitCli /\ [][NextCli]_vars

\* The keys of the segments of the document
BookKeys == {hash_key(Segments[book[i]].text) : i \in 1..Len(book)}

\* The keys of the translations the progress file held when run n started
HeldKeys(n) == {item[1] : item \in held[n]}

\* C13: a segment whose hash is a key of the progress record, loaded from the
\* file at the start of the run or added earlier in the run, is never sent to
\* the orchestrator; a run over a fully recorded document sends nothing.
C13_KnownSegmentsNotSent ==
    /\ \A i \in 1..Len(sent) :
         /\ sent[i].key \notin HeldKeys(sent[i].run)
         /\ \A j \in 1..(i - 1) :
              sent[j].run = sent[i].run /\ sent[j].ok => sent[j].key # sent[i].key
    /\ \A n \in 1..Len(held) :
         BookKeys \subseteq HeldKeys(n) => \A i \in 1..Len(sent) : sent[i].run # n

\* A second run has gone through a document that the first run recorded in
\* full, and has sent nothing
C13_Witness ==
    /\ cli_pc = "done"
    /\ run_no = 2
    /\ Len(held) = 2
    /\ BookKeys \subseteq HeldKeys(2)
    /\ ~(BookKeys \subseteq HeldKeys(1))
    /\ \E i \in 1..Len(sent) : sent[i].run = 1
    /\ \A i \in 1..Len(sent) : sent[i].run # 2

\* C14: once translate_with_fallback has raised TranslationError for a segment,
\* the run sends no further segment; the run stops at that segment, whose key
\* is recorded neither in the progress record nor in the progress file.
C14_FailFast ==
    /\ \A i \in 1..Len(sent) : \A j \in 1..(i - 1) :
         sent[j].run = sent[i].run => sent[j].ok
    /\ \A i \in 1..Len(sent) :
         ~sent[i].ok /\ sent[i].run = run_no /\ cli_pc # "start" =>
             /\ cli_pc = "broke"
             /\ item_no = sent[i].item
             /\ ~Known(trans_map, sent[i].key)
             /\ load_progress(disk, workspace).ok
             /\ ~Known(Get(load_progress(disk, workspace).value, "translated", PyDict(<<>>)),
                       sent[i].key)

\* A run has stopped at a failed segment that is not the last one, after a
\* segment that it translated
C14_Witness ==
    /\ cli_pc = "broke"
    /\ item_no > 1
    /\ item_no < Len(book)
    /\ \E i \in 1..Len(sent) : sent[i].run = run_no /\ sent[i].ok
    /\ \E i \in 1..Len(sent) : sent[i].run = run_no /\ ~sent[i].ok

\* C15: the progress is saved once after each translated segment, before the
\* next segment is sent; at every point of a run the progress file holds every
\* translation it held when the run started and the translation of every
\* segment the run has completed; and no later run sends a segment that an
\* earlier run translated.
C15_ProgressSavedPerSegment ==
    /\ \A i \in 1..Len(sent) :
         sent[i].run = run_no /\ sent[i].ok /\ Len(held) = run_no =>
             \/ \E item \in completed : item[1] = sent[i].key
             \/ i = Len(sent) /\ cli_pc \in {"save", "write", "replace"}
    /\ Len(held) = run_no =>
         /\ load_progress(disk, workspace).ok
         /\ (held[run_no] \cup completed) \subseteq
                Items(Get(load_progress(disk, workspace).value, "translated", PyDict(<<>>)))
    /\ \A i \in 1..Len(sent) : \A j \in 1..(i - 1) :
         sent[j].run < sent[i].run /\ sent[j].ok => sent[i].key # sent[j].key

(***************************************************************************)
(* validate_translation applied on its own to small candidates             *)
(***************************************************************************)
\* The pieces candidate translations are put together from: two kinds of tag,
\* ten characters of text, a space
CandidateTokens ==
    << <<"<", "p", ">">>,
       <<"<", "/", "p", ">">>,
       <<"<", "d", "i", "v", ">">>,
       <<"<", "/", "d", "i", "v", ">">>,
       Rep("x", 10),
       <<" ">> >>

\* The largest number of tokens in a candidate
MaxCandidateTokens == 4

\* The candidates: every sequence of at most MaxCandidateTokens tokens, joined
Candidates ==
    UNION { { Join([j \in 1..n |-> CandidateTokens[f[j]]]) :
                f \in [1..n -> 1..Len(CandidateTokens)] } :
            n \in 0..MaxCandidateTokens }

\* The source pieces: a paragraph, a paragraph inside a div, a div without
\* paragraph, text before a paragraph, a paragraph after whitespace, a tag that
\* is never closed
Originals ==
    { <<"<", "p", ">", "x", "<", "/", "p", ">">>,
      <<"<", "d", "i", "v", ">", "<", "p", ">", "x", "<", "/", "p", ">",
        "<", "/", "d", "i", "v", ">">>,
      <<"<", "d", "i", "v", ">", "x", "<", "/", "d", "i", "v", ">">>,
      <<"x", "<", "p", ">", "x", "<", "/", "p", ">">>,
      <<" ", "<", "p", ">", "x", "<", "/", "p", ">">>,
      <<"<", "p">> }

InitValidator ==
    /\ arg_orig \in Originals
    /\ arg_trans \in Candidates
    /\ verdict = <<>>
    /\ FootnoterIdle
    /\ EngineIdle
    /\ SplitterIdle
    /\ StoreIdle
    /\ CliIdle

\* is_valid, error = validate_translation(orig, trans)
ApplyValidate ==
    /\ verdict = <<>>
    /\ \E r \in {validate_translation(arg_orig, arg_trans)} :
         verdict' = <<r.valid, r.err>>
    /\ UNCHANGED <<engine, splitter, store, cli, footnoter, arg_orig, arg_trans>>

NextValidator == ApplyValidate

SpecValidator == InitValidator /\ [][NextValidator]_vars

\* Rule 1: the candidate is empty or has fewer than ten characters once trimmed
TooShort(trans) == Len(Strip(trans)) < MinTransLen

\* Rule 2: the source begins with a tag and the candidate does not begin with it
StartTagMismatch(orig, trans) ==
    LET source == Strip(orig)
        gt     == Find(source, <<">">>, 0, Len(source))
    IN  /\ StartsWith(source, <<"<">>)
        /\ gt > 0
        /\ ~StartsWith(Strip(trans), Slice(source, 0, gt + 1))

\* Rule 3: the source has a paragraph tag and the candidate has none
ParagraphLost(orig, trans) ==
    Contains(orig, <<"<", "p">>) /\ ~Contains(trans, <<"<", "p">>)

\* Rule 4: the text of the parsed candidate has fewer than twenty characters
InsufficientText(trans) == get_text_len(trans) < MinTextLen

\* The rules a candidate fails, by their number
FailedRules(orig, trans) ==
    {k \in 1..4 : \/ k = 1 /\ TooShort(trans)
                  \/ k = 2 /\ StartTagMismatch(orig, trans)
                  \/ k = 3 /\ ParagraphLost(orig, trans)
                  \/ k = 4 /\ InsufficientText(trans)}

\* The reason each rule rejects with
RuleReasons ==
    << "Translation too short", "Output should start with the first tag",
       "Paragraph tags missing", "Too little text after parsing" >>

RECURSIVE TagsFrom(_, _)
TagsFrom(s, pos) ==
    LET lt == Find(s, <<"<">>, pos, Len(s))
        gt == IF lt = -1 THEN -1 ELSE Find(s, <<">">>, lt, Len(s))
    IN  IF gt = -1 THEN <<>>
        ELSE <<Slice(s, lt, gt + 1)>> \o TagsFrom(s, gt + 1)

\* Every closing tag of tags closes the tag opened last, and none of the tags
\* in open, nor any tag opened later, is left open
RECURSIVE WellNested(_, _)
WellNested(tags, open) ==
    IF tags = <<>> THEN open = <<>>
    ELSE LET t == Head(tags)
         IN  IF t[2] = "/"
             THEN /\ open # <<>>
                  /\ open[Len(open)] = <<"<">> \o SubSeq(t, 3, Len(t))
                  /\ WellNested(Tail(tags), SubSeq(open, 1, Len(open) - 1))
             ELSE WellNested(Tail(tags), Append(open, t))

\* The candidate is well-formed markup, at least one element, without any text
MarkupWithoutText(trans) ==
    /\ get_text_len(trans) = 0
    /\ TagsFrom(trans, 0) # <<>>
    /\ WellNested(TagsFrom(trans, 0), <<>>)

\* C26 (as claimed): every candidate that is well-formed markup without text is
\* rejected with the reason of the text floor.
C26_EmptyMarkupIsInsufficient ==
    (verdict # <<>> /\ MarkupWithoutText(arg_trans)) =>
        verdict = <<FALSE, "Too little text after parsing">>

\* C26 (amended): every candidate that is well-formed markup without text is
\* rejected, with the reason of the text floor exactly when it passes the
\* length, start tag and paragraph rules, which are applied first.
C26_EmptyMarkupIsRejected ==
    (verdict # <<>> /\ MarkupWithoutText(arg_trans)) =>
        /\ verdict[1] = FALSE
        /\ verdict[2] = "Too little text after parsing"
             <=> FailedRules(arg_orig, arg_trans) = {4}

\* Two empty elements, long enough and with the source's first tag, were
\* rejected for their text
C26_Witness ==
    /\ MarkupWithoutText(arg_trans)
    /\ verdict = <<FALSE, "Too little text after parsing">>

(***************************************************************************)
(* convert_translator_notes_to_footnotes applied on its own: one call, or  *)
(* two independent calls                                                   *)
(***************************************************************************)
\* The pieces translated bodies are put together from: the opening of an
\* annotation, a closing bracket, a line feed, a whole annotation
NoteTokens ==
    << NoteOpen,
       <<"]">>,
       <<"\n">>,
       NoteOpen \o <<" ", "b", " ", "]">> >>

\* The largest number of tokens in the body of a single call
MaxNoteTokens == 3

\* The bodies of at most n tokens
NoteBodies(n) ==
    UNION { { Join([j \in 1..k |-> NoteTokens[f[j]]]) :
                f \in [1..k -> 1..Len(NoteTokens)] } :
            k \in 0..n }

\* The start values footnotes are numbered from
Starts == {1, 2, 9}

\* The calls on a body of at most n tokens
NoteCalls(n) == [html : NoteBodies(n), start : Starts]

\* One call, or two calls on shorter bodies
InitNotes ==
    /\ note_args \in {<<c>> : c \in NoteCalls(MaxNoteTokens)}
                     \cup {<<c, d>> : c \in NoteCalls(MaxNoteTokens - 1),
                                       d \in NoteCalls(MaxNoteTokens - 2)}
    /\ note_results = <<>>
    /\ ValidatorIdle
    /\ EngineIdle
    /\ SplitterIdle
    /\ StoreIdle
    /\ CliIdle

\* processed, notes = convert_translator_notes_to_footnotes(html, start)
Convert ==
    /\ Len(note_results) < Len(note_args)
    /\ \E c \in {note_args[Len(note_results) + 1]} :
         note_results' = Append(note_results,
                                convert_translator_notes_to_footnotes(c.html, c.start))
    /\ UNCHANGED <<engine, splitter, store, cli, validator, note_args>>

NextNotes == Convert

SpecNotes == InitNotes /\ [][NextNotes]_vars

\* text[a:b] is an annotation whose commentary begins at the 0-based offset
\* c: the literal, whitespace up to c, a commentary on one line and the first
\* ']' after the literal
IsAnnotation(text, a, c, b) ==
    /\ \A j \in (a + Len(NoteOpen) + 1)..c : text[j] \in Whitespace
    /\ text[c + 1] \notin Whitespace
    /\ \A j \in (c + 1)..(b - 1) : text[j] \notin {"]", "\n"}
    /\ text[b] = "]"

\* The annotations of a text
Annotations(text) ==
    UNION { UNION { { [a |-> a, c |-> c, b |-> b] :
                        b \in {e \in (c + 1)..Len(text) : IsAnnotation(text, a, c, e)} } :
                    c \in (a + Len(NoteOpen))..(Len(text) - 1) } :
            a \in {i \in 0..(Len(text) - Len(NoteOpen)) : MatchAt(text, NoteOpen, i)} }

\* The annotation markers of a text: its annotations, from left to right, but
\* for those that begin inside an earlier marker
MarkerSet(text) ==
    CHOOSE chosen \in SUBSET Annotations(text) :
        \A m \in Annotations(text) :
            m \in chosen <=> ~\E n \in chosen : n.a < m.a /\ m.a < n.b

\* A finite set of annotations in the order of their offsets
RECURSIVE InOrder(_)
InOrder(ms) ==
    IF ms = {} THEN <<>>
    ELSE LET m == CHOOSE x \in ms : \A y \in ms : x.a <= y.a
         IN  <<m>> \o InOrder(ms \ {m})

NoteMarkers(text) == InOrder(MarkerSet(text))

\* The text with its k-th marker and every later one replaced by the
\* references numbered n, n + 1, ..., from the 0-based offset pos on
RECURSIVE Referenced(_, _, _, _, _)
Referenced(text, ms, k, n, pos) ==
    IF k > Len(ms) THEN SliceFrom(text, pos)
    ELSE Slice(text, pos, ms[k].a) \o Sup(n) \o Referenced(text, ms, k + 1, n + 1, ms[k].b)

\* The calls made so far, each with what it was given, what it returned and
\* the markers of its body
Made ==
    { [html |-> note_args[i].html, start |-> note_args[i].start,
       processed |-> note_results[i][1], notes |-> note_results[i][2],
       markers |-> NoteMarkers(note_args[i].html)] : i \in 1..Len(note_results) }

\* C22: a call on a body with n markers returns n footnotes; the k-th marker
\* from the left is replaced in the body by the reference numbered s + k - 1 and
\* the k-th footnote has the number s + k - 1 and the commentary of that marker;
\* a body without marker is returned unchanged with no footnote.
C22_SequentialNumbering ==
    \A c \in Made :
        /\ Len(c.notes) = Len(c.markers)
        /\ c.processed = Referenced(c.html, c.markers, 1, c.start, 0)
        /\ \A k \in 1..Len(c.markers) :
             c.notes[k] = NoteHtml(c.start + k - 1,
                                   Strip(Slice(c.html, c.markers[k].c, c.markers[k].b - 1)))
        /\ c.markers = <<>> => c.processed = c.html /\ c.notes = <<>>

\* A call on a body with three markers, numbered from 9, returned three
\* footnotes
C22_Witness ==
    \E c \in Made : c.start = 9 /\ Len(c.markers) = 3 /\ Len(c.notes) = 3

\* The values of the attribute that is written attr (' id="', ' href="') in
\* the text, from the 0-based offset pos on, in order
RECURSIVE AttrFrom(_, _, _)
AttrFrom(text, attr, pos) ==
    LET at    == Find(text, attr, pos, Len(text))
        from  == at + Len(attr)
        quote == IF at = -1 THEN -1 ELSE Find(text, <<"\"">>, from, Len(text))
    IN  IF quote = -1 THEN <<>>
        ELSE <<Slice(text, from, quote)>> \o AttrFrom(text, attr, quote + 1)

\* The link targets of the anchors of a text
Hrefs(text) == AttrFrom(text, <<" ", "h", "r", "e", "f", "=", "\"">>, 0)

\* The ids of the elements of a text
Ids(text) == AttrFrom(text, <<" ", "i", "d", "=", "\"">>, 0)

\* The reference put in the body for each footnote links to the id of the
\* footnote
ReferencesPointAtFootnotes ==
    \A c \in Made :
        \A k \in 1..Len(c.notes) :
            Hrefs(c.processed)[k] = <<"#">> \o Ids(c.notes[k])[1]

\* Each footnote links back to the id of its reference in the body
BackLinksPointAtReferences ==
    \A c \in Made :
        \A k \in 1..Len(c.notes) :
            Hrefs(c.notes[k])[1] = <<"#">> \o Ids(c.processed)[k]

\* C23: for every converted annotation, the reference put in the body links to
\* the id of its footnote, and the footnote links back to the id of the
\* reference.
C23_CrossReferencesMatch ==
    ReferencesPointAtFootnotes /\ BackLinksPointAtReferences

\* The numbers shown by the anchors of a text, from the 0-based offset pos on:
\* what stands between an "<a ...>" and the next tag
RECURSIVE LabelsFrom(_, _)
LabelsFrom(text, pos) ==
    LET at == Find(text, <<"<", "a", " ">>, pos, Len(text))
        gt == IF at = -1 THEN -1 ELSE Find(text, <<">">>, at, Len(text))
        lt == IF gt = -1 THEN -1 ELSE Find(text, <<"<">>, gt, Len(text))
    IN  IF lt = -1 THEN <<>>
        ELSE <<Slice(text, gt + 1, lt)>> \o LabelsFrom(text, lt)

\* The set of the elements of a sequence
Range(seq) == {seq[i] : i \in 1..Len(seq)}

\* The ids and the footnote numbers a call put in its body and in its footnotes
IdsOf(c) == Range(Ids(c.processed \o Join(c.notes)))

NumbersOf(c) == Range(LabelsFrom(c.processed \o Join(c.notes), 0))

\* The two calls of a behaviour that made two calls
BothMade ==
    { <<c, d>> \in Made \X Made :
        /\ Len(note_results) = 2
        /\ c.html = note_args[1].html /\ c.start = note_args[1].start
        /\ d.html = note_args[2].html /\ d.start = note_args[2].start }

\* Every footnote of a call has the number that follows from the call's own
\* start value and the footnote's rank
NumberedFromOwnStart ==
    \A c \in Made :
        \A k \in 1..Len(c.notes) :
            LabelsFrom(c.notes[k], 0) = <<Decimal(c.start + k - 1)>>

\* C24 (as claimed): two calls with different start values have no footnote
\* number and no anchor id in common, and each call numbers from its own start
\* value only.
C24_DifferentStartsNeverCollide ==
    /\ NumberedFromOwnStart
    /\ \A p \in BothMade :
         p[1].start # p[2].start =>
             /\ IdsOf(p[1]) \cap IdsOf(p[2]) = {}
             /\ NumbersOf(p[1]) \cap NumbersOf(p[2]) = {}

\* The numbers start, ..., start + n - 1 of a call that found n markers
NumberRange(c) == c.start..(c.start + Len(c.markers) - 1)

\* C24 (amended): two calls whose number ranges start..start+n-1 do not overlap
\* have no footnote number and no anchor id in common, and each call numbers
\* from its own start value only.
C24_DisjointRangesNeverCollide ==
    /\ NumberedFromOwnStart
    /\ \A p \in BothMade :
         NumberRange(p[1]) \cap NumberRange(p[2]) = {} =>
             /\ IdsOf(p[1]) \cap IdsOf(p[2]) = {}
             /\ NumbersOf(p[1]) \cap NumbersOf(p[2]) = {}

\* A call that numbered two footnotes from 1 and a call that numbered one
\* footnote from 9
C24_Witness ==
    \E p \in BothMade :
        /\ p[1].start = 1 /\ Len(p[1].notes) = 2
        /\ p[2].start = 9 /\ Len(p[2].notes) = 1
        /\ IdsOf(p[1]) \cap IdsOf(p[2]) = {}

(***************************************************************************)
(* The chunking passes of translate_with_chunking                          *)
(***************************************************************************)
\* The step is a request for a piece of a pass, and the request failed
PieceFails ==
    /\ pc = "chunk"
    /\ Len(requests') = Len(requests) + 1
    /\ ~requests'[Len(requests')].ok

\* C27: when the request for a piece fails, the model is given up for the next
\* one if the piece has fewer than 4000 characters and another model remains;
\* in every other case, if half the chunk size is still 2000 or more, the
\* chunk size is halved and the loop goes on to a new pass with the same model.
C27_GiveUpOnlyOnSmallPiece ==
    [][PieceFails =>
         IF /\ Len(BlockText(chunks[chunk_no])) < GiveUpSize
            /\ model_idx < Len(model_list)
         THEN pc' = "failed" /\ model_idx' = model_idx
         ELSE chunk_size \div 2 >= min_chunk_size =>
                  /\ pc' = "while"
                  /\ chunk_size' = chunk_size \div 2
                  /\ model_idx' = model_idx]_vars

\* The requests for the first piece of each pass of the model at position n,
\* in the order they were sent
PassStarts(n) ==
    SelectSeq(requests, LAMBDA r : r.m = n /\ r.size > 0 /\ r.piece = 1)

\* C28: for every model, the first pass sent has the target size
\* min(len(document) div 2, 16000), every later pass half the size of the pass
\* before it (rounded down), and every pass a size of 2000 or more; so the
\* sizes strictly decrease and none is used twice.
C28_PassSizesHalveFromCappedStart ==
    \A n \in DOMAIN model_list :
        LET starts == PassStarts(n)
        IN  /\ starts # <<>> =>
                starts[1].size = IF Len(AllDocs[html]) \div 2 < 16000
                                 THEN Len(AllDocs[html]) \div 2 ELSE 16000
            /\ \A i \in DOMAIN starts :
                   /\ starts[i].size >= 2000
                   /\ i > 1 => starts[i].size = starts[i - 1].size \div 2
                   /\ \A j \in DOMAIN starts : i < j => starts[j].size < starts[i].size

\* Two models were each sent four passes on a document of more than 32000
\* characters, the first at size 16000 and the last at size 2000
C28_Witness ==
    /\ Len(AllDocs[html]) \div 2 > 16000
    /\ Len(model_list) >= 2
    /\ \A n \in {1, 2} :
           /\ Len(PassStarts(n)) = 4
           /\ PassStarts(n)[1].size = 16000
           /\ PassStarts(n)[4].size = 2000

\* The request at position p is for the piece after the one of the request
\* before it, in the same pass, and that request returned
FollowsItsPredecessor(p) ==
    /\ p > 1
    /\ requests[p - 1].ok
    /\ requests[p - 1].m = requests[p].m
    /\ requests[p - 1].size = requests[p].size
    /\ requests[p - 1].piece = requests[p].piece - 1

\* C29: in a pass the pieces are requested in their order, each after the
\* request for the piece before it has returned; and a call that returns from
\* a pass returns the responses to all k pieces of the split, joined in the
\* order of the pieces.
C29_PiecesInOrderThenJoined ==
    /\ \A p \in DOMAIN requests :
           (requests[p].size > 0 /\ requests[p].piece > 1) => FollowsItsPredecessor(p)
    /\ ReturnedByPass =>
           LET k    == Len(Split(html, chunk_size))
               base == Len(requests) - k
           IN  /\ base >= 0
               /\ \A j \in 1..k :
                      /\ requests[base + j].ok
                      /\ requests[base + j].size = chunk_size
                      /\ requests[base + j].piece = j
               /\ ret.result = Join([j \in 1..k |-> Output(base + j)])

\* A pass of three pieces is returned, with three different responses, after
\* an earlier pass had stopped at its second piece
C29_Witness ==
    /\ ReturnedByPass
    /\ Len(Split(html, chunk_size)) = 3
    /\ \A p, q \in (Len(requests) - 2)..Len(requests) : p # q => Output(p) # Output(q)
    /\ \E p \in DOMAIN requests : requests[p].piece = 2 /\ ~requests[p].ok

\* The block of the request at position p
PieceSent(p) == BlockText([d |-> html, size |-> requests[p].size, piece |-> requests[p].piece])

\* C30: every pass that is sent breaks the document into two pieces or more,
\* and no piece sent is the whole document, which the same model was already
\* sent and failed on.
C30_NoPassIsANoOpSplit ==
    \A p \in DOMAIN requests :
        requests[p].size > 0 =>
            /\ Len(Split(html, requests[p].size)) >= 2
            /\ PieceSent(p) # AllDocs[html]
            /\ FullFailed(requests[p].m)

(***************************************************************************)
(* The cuts of smart_html_split                                            *)
(***************************************************************************)
\* The offsets within SearchWindow of target_size at which the closing tag of
\* a major block element ends in text
TagEnds(text, target_size) ==
    {e \in 1..Len(text) :
        /\ Abs(e - target_size) <= SearchWindow
        /\ \E tag \in Range(major_tags) :
               e >= Len(tag) /\ MatchAt(text, tag, e - Len(tag))}

\* The tag ends of TagEnds that are closest to target_size
ClosestTagEnds(text, target_size) ==
    {e \in TagEnds(text, target_size) :
        \A f \in TagEnds(text, target_size) :
            Abs(e - target_size) <= Abs(f - target_size)}

\* C32: when smart_html_split splits a body in which a closing tag of a major
\* block element ends within 500 characters of the target offset, the first
\* cut is made at the end of such a closing tag, one whose end is closest to
\* the target size: the first piece is the body up to that end, trimmed.
C32_CutsAtClosestTagEnd ==
    (/\ applied = "smart_html_split"
     /\ Len(arg_text) > arg_size
     /\ TagEnds(arg_text, arg_size) # {})
    => /\ fn_result # <<>>
       /\ \E e \in ClosestTagEnds(arg_text, arg_size) :
              fn_result[1] = Strip(Slice(arg_text, 0, e))

Occurrences(text, pat, start) ==
    {i \in start..(Len(text) - Len(pat)) : MatchAt(Lower(text), pat, i)}

\* The least offset of a non-empty set of offsets
FirstOf(offsets) == CHOOSE i \in offsets : \A j \in offsets : i <= j

\* C34: with the first body-open tag of the input ending at offset g and the
\* first body-close tag after it beginning at offset c, prefix is the input up
\* to g, body the input from g to c and suffix the input from c to its end;
\* an input without such a pair comes back as ("", input, "").
C34_BoundariesAtFirstBodyPair ==
    applied = "extract_html_structure" =>
        LET opens  == Occurrences(arg_text, BodyOpen, 0)
            ends   == IF opens = {} THEN {}
                      ELSE {g + 1 : g \in Occurrences(arg_text, <<">">>,
                                                     FirstOf(opens) + Len(BodyOpen))}
            closes == IF ends = {} THEN {}
                      ELSE Occurrences(arg_text, BodyClose, FirstOf(ends))
        IN  IF closes = {}
            THEN fn_result = [prefix |-> <<>>, body |-> arg_text, suffix |-> <<>>]
            ELSE /\ fn_result.prefix = Slice(arg_text, 0, FirstOf(ends))
                 /\ fn_result.body = Slice(arg_text, FirstOf(ends), FirstOf(closes))
                 /\ fn_result.suffix = SliceFrom(arg_text, FirstOf(closes))

(***************************************************************************)
(* Termination of translate_with_chunking                                  *)
(***************************************************************************)
\* The call has returned or raised
Terminated == pc \in {"returned", "raised"}

\* The positions of the requests sent to the model at position n at size
\* (size 0: the whole document)
RequestsAt(n, size) ==
    {p \in DOMAIN requests : requests[p].m = n /\ requests[p].size = size}

\* Every model was sent at most one whole-document request and at most four
\* passes, and in a pass no more requests than the split has pieces
RequestsBounded ==
    \A n \in DOMAIN model_list :
        /\ Cardinality(RequestsAt(n, 0)) <= 1
        /\ Len(PassStarts(n)) <= 4
        /\ \A i \in DOMAIN PassStarts(n) :
               Cardinality(RequestsAt(n, PassStarts(n)[i].size))
                   <= Len(Split(html, PassStarts(n)[i].size))

\* C35: when every request returns or fails, the call returns or raises in
\* the end; on the way each model is sent at most one whole-document request
\* and at most four passes, each of no more requests than the split has
\* pieces, so the number of requests is bounded.
C35_TerminatesWithBoundedRequests ==
    /\ <>Terminated
    /\ []RequestsBounded

\* The call has raised after two models were each sent the whole document
\* and four passes
C35_Witness ==
    /\ pc = "raised"
    /\ Len(model_list) = 2
    /\ \A n \in {1, 2} :
           Cardinality(RequestsAt(n, 0)) = 1 /\ Len(PassStarts(n)) = 4

(***************************************************************************)
(* A failed piece in a pass of translate_with_chunking                     *)
(***************************************************************************)
\* C36: once a request for a piece has failed, no later request belongs to
\* the same pass (the same model at the same chunk size); and the responses
\* the call holds while a pass is under way are those of that pass alone, one
\* for each piece before the one in hand, so that a new pass starts with none
\* of the responses of the pass that failed.
C36_FailedPieceEndsPass ==
    /\ \A p \in DOMAIN requests :
           (requests[p].size > 0 /\ ~requests[p].ok) =>
               \A q \in DOMAIN requests :
                   q > p => ~(/\ requests[q].m = requests[p].m
                              /\ requests[q].size = requests[p].size)
    /\ pc = "chunk" =>
           /\ Len(translated_chunks) = chunk_no - 1
           /\ Len(requests) >= chunk_no - 1
           /\ \A j \in 1..(chunk_no - 1) :
                  LET p == Len(requests) - (chunk_no - 1) + j
                  IN  /\ requests[p].ok
                      /\ requests[p].m = model_idx
                      /\ requests[p].size = chunk_size
                      /\ requests[p].piece = j
                      /\ translated_chunks[j] = Output(p)

\* A new pass is about to send its first piece and holds no response,
\* although the pass before it, of the same model, had a piece translated
\* before its second piece failed
C36_Witness ==
    /\ pc = "chunk"
    /\ chunk_no = 1
    /\ translated_chunks = <<>>
    /\ \E p \in DOMAIN requests :
           /\ requests[p].m = model_idx
           /\ requests[p].piece = 2
           /\ ~requests[p].ok
           /\ requests[p - 1].ok

(***************************************************************************)
(* smart_html_split run turn by turn: one step per turn of its while loop  *)
(***************************************************************************)
\* A variant of NextRemaining that keeps the characters before the cut
NextRemainingFromStart(rest, best_split) ==
    Strip(SliceFrom(rest, 0))

\* "remaining = remaining[best_split:].strip()" (line 158)
NextRemaining(rest, best_split) ==
    Strip(SliceFrom(rest, best_split))

\* "chunk = remaining[:best_split].strip()" and "if chunk: chunks.append(chunk)"
\* (lines 155-157)
NextChunks(rest, best_split, pieces) ==
    LET chunk == Strip(Slice(rest, 0, best_split))
    IN  IF chunk # <<>> THEN Append(pieces, chunk) ELSE pieces

\* The largest number of tokens in a document split turn by turn
MaxLoopTokens == 3

\* The documents split turn by turn: at most MaxLoopTokens tokens, joined
LoopDocs ==
    UNION { { Join([j \in 1..n |-> Tokens[f[j]]]) : f \in [1..n -> 1..Len(Tokens)] } :
            n \in 0..MaxLoopTokens }

\* No call of smart_html_split has been made yet
InitSplitLoop ==
    /\ SplitterIdle
    /\ EngineIdle
    /\ StoreIdle
    /\ CliIdle
    /\ PureIdle

\* The call smart_html_split(text, size) and lines 131-138: the early return,
\* or the start of the loop
EnterSplit ==
    /\ applied = "none"
    /\ \E text \in LoopDocs, size \in TargetSizes :
           /\ arg_text' = text
           /\ arg_size' = size
           /\ IF Len(text) <= size
              THEN /\ applied' = "smart_html_split"
                   /\ fn_result' = <<text>>
                   /\ UNCHANGED <<split_remaining, split_chunks>>
              ELSE /\ applied' = "while"
                   /\ split_remaining' = text
                   /\ split_chunks' = <<>>
                   /\ UNCHANGED fn_result
    /\ UNCHANGED <<engine, store, cli, pure>>

\* Lines 140-158: one turn of "while len(remaining) > target_size"
LoopTurn ==
    /\ applied = "while"
    /\ Len(split_remaining) > arg_size
    /\ \E best_split \in {BestSplit(split_remaining, arg_size, 1, arg_size)} :
           /\ split_chunks' = NextChunks(split_remaining, best_split, split_chunks)
           /\ split_remaining' = NextRemaining(split_remaining, best_split)
    /\ UNCHANGED <<engine, store, cli, pure, applied, arg_text, arg_size, fn_result>>

\* Lines 160-165: the loop is over; the rest is appended unless blank
LoopExit ==
    /\ applied = "while"
    /\ Len(split_remaining) <= arg_size
    /\ applied' = "smart_html_split"
    /\ fn_result' = IF Strip(split_remaining) # <<>>
                    THEN Append(split_chunks, split_remaining)
                    ELSE split_chunks
    /\ UNCHANGED <<engine, store, cli, pure, arg_text, arg_size, split_remaining,
                   split_chunks>>

NextSplitLoop == EnterSplit \/ LoopTurn \/ LoopExit

\* The interpreter goes on as long as the function has a statement to run
SpecSplitLoop == InitSplitLoop /\ [][NextSplitLoop]_vars /\ WF_vars(NextSplitLoop)

\* C37: smart_html_split returns for every body and every target size of 1 or
\* more: every turn of its loop leaves a remaining text at least one character
\* shorter, and what it returns turn by turn is the value of smart_html_split.
C37_SplitLoopTerminates ==
    /\ <>(applied = "smart_html_split")
    /\ [][LoopTurn => Len(split_remaining') < Len(split_remaining)]_vars
    /\ [](applied = "smart_html_split" =>
              fn_result = smart_html_split(arg_text, arg_size))

\* The loop took three turns or more and returned: at target size 2 the
\* remaining text was still longer than 2 after two turns
C37_Witness ==
    /\ applied = "smart_html_split"
    /\ arg_size = 2
    /\ Len(fn_result) >= 4
    /\ Len(split_remaining) <= arg_size

====
